---- MODULE Spec2Model ----
(***************************************************************************)
(* A model of huff_parser::Parser (src/huff_parser/src/lib.rs).            *)
(*                                                                         *)
(* The parser is single-threaded and synchronous: its state is the four    *)
(* mutable fields of the Parser struct (tokens, cursor, current_token,     *)
(* spans; `base` is None throughout).  Every `pub fn` of the impl block is *)
(* an operator that takes the parser record and returns a result record    *)
(*     [st, p, val, err]                                                   *)
(* where st is "Ok" (Result::Ok), "Err" (Result::Err), "Panic" (an unwrap  *)
(* of None) or "Hang" (a loop whose iteration neither moves the cursor nor *)
(* fails, so it repeats forever), p is the parser after the call, val the  *)
(* returned value and err the ParserError.                                 *)
(*                                                                         *)
(* A Span (start, end, file) is modelled by the position of its token in   *)
(* the lexer's output: distinct tokens have distinct spans, ordered as the *)
(* source is.  The cursor is 0-based as in the source; tokens.get(i) is    *)
(* p.tokens[i + 1].                                                        *)
(***************************************************************************)
EXTENDS Integers, Sequences, FiniteSets, TLC

VARIABLES
    tokens,         \* Parser.tokens
    cursor,         \* Parser.cursor
    current_token,  \* Parser.current_token
    spans,          \* Parser.spans
    input,          \* the token vector handed to Parser::new
    pc,             \* "new" after Parser::new, "returned" / "hung" / "panicked" after
                    \* parse(), "<fn>_returned" / "<fn>_panicked" after another pub fn
    ret,            \* what the last call returned: [st, contract, kind, tok, margs, err]
    steps           \* history: the values reset() and each consume() since gave to
                    \* cursor and current_token, with the kind of the token consumed

vars == <<tokens, cursor, current_token, spans, input, pc, ret, steps>>

----------------------------------------------------------------------------
(* TokenKind, Token, Span *)

K(tag) == [tag |-> tag, str |-> "", num |-> 0, prim |-> "", dims |-> <<>>]
Ident(s) == [K("Ident") EXCEPT !.str = s]
Str(s) == [K("Str") EXCEPT !.str = s]
Label(s) == [K("Label") EXCEPT !.str = s]
Opcode(s) == [K("Opcode") EXCEPT !.str = s]
BuiltinFunction(s) == [K("BuiltinFunction") EXCEPT !.str = s]
Comment(s) == [K("Comment") EXCEPT !.str = s]
Num(n) == [K("Num") EXCEPT !.num = n]
Literal(n) == [K("Literal") EXCEPT !.num = n]
PrimitiveType(prim, n) == [K("PrimitiveType") EXCEPT !.prim = prim, !.num = n]
ArrayType(prim, n, dims) == [K("ArrayType") EXCEPT !.prim = prim, !.num = n, !.dims = dims]
Usize(n) == [K("usize") EXCEPT !.num = n]
PathString(s) == [K("String") EXCEPT !.str = s]

Token(kind, span) == [kind |-> kind, span |-> span]

\* The lexer's output for a sequence of kinds: token i carries span i.
Lex(kinds) == [i \in 1..Len(kinds) |-> Token(kinds[i], i)]

\* std::mem::discriminant(a) == std::mem::discriminant(b)
discriminant(kind) == kind.tag

----------------------------------------------------------------------------
(* Result records *)

NoErr == [kind |-> "", tok |-> K(""), spans |-> <<>>]
ParserError(kind, tok, sp) == [kind |-> kind, tok |-> tok, spans |-> sp]

Ok(p, val) == [st |-> "Ok", p |-> p, val |-> val, err |-> NoErr]
Err(p, e) == [st |-> "Err", p |-> p, val |-> <<>>, err |-> e]
Panic(p) == [st |-> "Panic", p |-> p, val |-> <<>>, err |-> NoErr]
Hang(p) == [st |-> "Hang", p |-> p, val |-> <<>>, err |-> NoErr]
\* `?` and unwinding: a non-Ok result leaves the caller with the same status.
Propagate(r) == [st |-> r.st, p |-> r.p, val |-> <<>>, err |-> r.err]

\* `let v = e; rest`
Let(v, Rest(_)) == Rest(v)
\* `let r = e?; rest`
AndThen(r, Rest(_)) == IF r.st # "Ok" THEN Propagate(r) ELSE Rest(r)

None == [some |-> FALSE, v |-> ""]
Some(s) == [some |-> TRUE, v |-> s]

----------------------------------------------------------------------------
(* Cursor primitives *)

\* An entry of the history: cursor and current_token as a step left them, and
\* the variant of the token the step consumed ("" for reset).
Step(c, tok, consumed) == [cursor |-> c, current_token |-> tok, consumed |-> consumed]

new(toks) ==
    [tokens |-> toks, cursor |-> 0, current_token |-> toks[1], spans |-> <<>>,
     steps |-> <<>>]

reset(p) ==
    [p EXCEPT !.current_token = p.tokens[1], !.cursor = 0,
              !.steps = <<Step(0, p.tokens[1], "")>>]

check(p, kind) == discriminant(p.current_token.kind) = discriminant(kind)

NoToken == [some |-> FALSE, tok |-> Token(K(""), 0)]
SomeToken(tok) == [some |-> TRUE, tok |-> tok]

\* Option<Token>.  tokens.get(cursor + 1).unwrap() panics when cursor + 1 is
\* not an index of tokens.
peek(p) ==
    IF p.cursor >= Len(p.tokens)
    THEN Ok(p, NoToken)
    ELSE IF p.cursor + 1 < Len(p.tokens)
         THEN Ok(p, SomeToken(p.tokens[p.cursor + 2]))
         ELSE Panic(p)

peek_behind(p) ==
    IF p.cursor = 0 \/ p.cursor > Len(p.tokens)
    THEN NoToken
    ELSE SomeToken(p.tokens[p.cursor])

consume(p) ==
    Let([p EXCEPT !.spans = Append(p.spans, p.current_token.span)], LAMBDA pushed :
    Let(peek(pushed), LAMBDA nxt :
        IF nxt.st # "Ok" \/ ~nxt.val.some
        THEN Panic(pushed)
        ELSE Ok([pushed EXCEPT !.current_token = nxt.val.tok,
                               !.cursor = pushed.cursor + 1,
                               !.steps = Append(pushed.steps,
                                                Step(pushed.cursor + 1, nxt.val.tok,
                                                     discriminant(p.current_token.kind)))],
                <<>>)))

match_kind(p, kind) ==
    IF discriminant(p.current_token.kind) = discriminant(kind)
    THEN AndThen(consume(p), LAMBDA c : Ok(c.p, p.current_token.kind))
    ELSE Err(p, ParserError("UnexpectedType", kind, p.spans))
----------------------------------------------------------------------------
(* Display of a TokenKind (huff_utils::token), as used by `.to_string()` *)

RECURSIVE DimsToString(_)
DimsToString(dims) ==
    IF dims = <<>> THEN ""
    ELSE "[" \o (IF Head(dims) = 0 THEN "" ELSE ToString(Head(dims))) \o "]"
             \o DimsToString(Tail(dims))

PrimToString(prim, n) ==
    CASE prim = "Uint" -> "uint" \o ToString(n)
      [] prim = "Int" -> "int" \o ToString(n)
      [] prim = "Bytes" -> "bytes" \o ToString(n)
      [] prim = "Bool" -> "bool"
      [] prim = "Address" -> "address"
      [] prim = "String" -> "string"
      [] prim = "DynBytes" -> "bytes"

KindToString(kind) ==
    CASE kind.tag = "PrimitiveType" -> PrimToString(kind.prim, kind.num)
      [] kind.tag = "ArrayType" ->
            PrimToString(kind.prim, kind.num) \o DimsToString(kind.dims)
      [] kind.tag \in {"Ident", "Str", "Label", "Opcode", "BuiltinFunction"} -> kind.str
      [] kind.tag \in {"Num", "Literal"} -> ToString(kind.num)
      [] OTHER -> kind.tag

----------------------------------------------------------------------------
(* Argument types *)

\* UintWidthOk without the test of size % 8.
UintWidthOk_any_width(size) == size >= 8 /\ size <= 256

UintWidthOk(size) == size >= 8 /\ size <= 256 /\ size % 8 = 0
BytesSizeOk(size) == size >= 1 /\ size <= 32

parse_primitive_type(p, prim, size) ==
    CASE prim = "Uint" ->
            IF ~UintWidthOk(size)
            THEN Err(p, ParserError("InvalidUint256", Usize(size),
                                    <<p.current_token.span>>))
            ELSE match_kind(p, p.current_token.kind)
      [] prim = "Bytes" ->
            IF ~BytesSizeOk(size)
            THEN Err(p, ParserError("InvalidBytes", Usize(size),
                                    <<p.current_token.span>>))
            ELSE match_kind(p, p.current_token.kind)
      [] prim \in {"Bool", "Address", "String", "DynBytes"} ->
            match_kind(p, p.current_token.kind)
      [] prim = "Int" ->
            IF ~UintWidthOk(size)
            THEN Err(p, ParserError("InvalidInt", Usize(size),
                                    <<p.current_token.span>>))
            ELSE AndThen(consume(p), LAMBDA c : Ok(c.p, p.current_token.kind))

\* For an ArrayType the result of parse_primitive_type is dropped (`let _ =`):
\* only its effect on the parser is kept, and the array token is returned.
parse_array_type(p, prim, size) ==
    Let(parse_primitive_type(p, prim, size), LAMBDA dropped :
        IF dropped.st = "Panic" THEN dropped ELSE Ok(dropped.p, p.current_token.kind))

parse_arg_type(p) ==
    CASE p.current_token.kind.tag = "PrimitiveType" ->
            parse_primitive_type(p, p.current_token.kind.prim, p.current_token.kind.num)
      [] p.current_token.kind.tag = "ArrayType" ->
            parse_array_type(p, p.current_token.kind.prim, p.current_token.kind.num)
      [] OTHER ->
            Err(p, ParserError("InvalidArgs", p.current_token.kind,
                               <<p.current_token.span>>))

----------------------------------------------------------------------------
(* Argument lists *)

Argument(arg_type, name, indexed, span) ==
    [arg_type |-> arg_type, name |-> name, indexed |-> indexed, span |-> span]

\* parse_args_indexed without the test of has_indexed.
parse_args_indexed_anywhere(p, arg, has_indexed) ==
    IF check(p, K("Indexed"))
    THEN AndThen(consume(p), LAMBDA c :
             Ok(c.p, [arg EXCEPT !.indexed = TRUE,
                                 !.span = Append(arg.span, p.current_token.span)]))
    ELSE Ok(p, arg)

\* `if has_indexed && check(Indexed) { ... }`: val = the argument so far.
parse_args_indexed(p, arg, has_indexed) ==
    IF has_indexed /\ check(p, K("Indexed"))
    THEN AndThen(consume(p), LAMBDA c :
             Ok(c.p, [arg EXCEPT !.indexed = TRUE,
                                 !.span = Append(arg.span, p.current_token.span)]))
    ELSE Ok(p, arg)

\* `if select_type { ... }`
parse_args_type(p, select_type, has_indexed) ==
    IF select_type
    THEN AndThen(parse_arg_type(p), LAMBDA t :
             parse_args_indexed(
                 t.p,
                 Argument(Some(KindToString(t.val)), None, FALSE, <<p.current_token.span>>),
                 has_indexed))
    ELSE Ok(p, Argument(None, None, FALSE, <<>>))

\* `if select_name && check(Ident) { ... }`
parse_args_name(p, arg, select_name) ==
    IF select_name /\ check(p, Ident("x"))
    THEN AndThen(match_kind(p, Ident("x")), LAMBDA m :
             Ok(m.p, [arg EXCEPT !.name = Some(KindToString(m.val)),
                                 !.span = Append(arg.span, p.current_token.span)]))
    ELSE Ok(p, arg)

\* `if check(Comma) { consume() }`
parse_args_comma(p, arg) ==
    IF check(p, K("Comma"))
    THEN AndThen(consume(p), LAMBDA c : Ok(c.p, arg))
    ELSE Ok(p, arg)

\* One pass through the body of the while loop: val = the Argument pushed.
parse_args_iteration(p, select_name, select_type, has_indexed) ==
    AndThen(parse_args_type(p, select_type, has_indexed), LAMBDA a :
    AndThen(parse_args_name(a.p, a.val, select_name), LAMBDA b :
        parse_args_comma(b.p, b.val)))

\* An iteration that returns Ok and leaves the parser as it found it (cursor,
\* current token and spans) is repeated by every later pass of the loop.
NoProgress(before, after) == after.st = "Ok" /\ after.p = before

RECURSIVE parse_args_loop(_, _, _, _, _)
parse_args_loop(p, args, select_name, select_type, has_indexed) ==
    IF check(p, K("CloseParen"))
    THEN AndThen(match_kind(p, K("CloseParen")), LAMBDA m : Ok(m.p, args))
    ELSE Let(parse_args_iteration(p, select_name, select_type, has_indexed), LAMBDA it :
             IF it.st # "Ok" THEN it
             ELSE IF NoProgress(p, it) THEN Hang(p)
             ELSE parse_args_loop(it.p, Append(args, it.val),
                                  select_name, select_type, has_indexed))

parse_args(p, select_name, select_type, has_indexed) ==
    AndThen(match_kind(p, K("OpenParen")), LAMBDA m :
        parse_args_loop(m.p, <<>>, select_name, select_type, has_indexed))
----------------------------------------------------------------------------
(* Statements of macro, label and table bodies *)

NoSpan == <<>>

Statement(ty, str, lit, margs, args, inner, span, node_span) ==
    [ty |-> ty, str |-> str, lit |-> lit, margs |-> margs, args |-> args,
     inner |-> inner, span |-> span, node_span |-> node_span]

LiteralStatement(val, span) == Statement("Literal", "", val, <<>>, <<>>, <<>>, span, NoSpan)
OpcodeStatement(o, span) == Statement("Opcode", o, 0, <<>>, <<>>, <<>>, span, NoSpan)
LabelCallStatement(s, span) == Statement("LabelCall", s, 0, <<>>, <<>>, <<>>, span, NoSpan)
ConstantStatement(s, span) == Statement("Constant", s, 0, <<>>, <<>>, <<>>, span, NoSpan)
ArgCallStatement(s, span) == Statement("ArgCall", s, 0, <<>>, <<>>, <<>>, span, NoSpan)
\* The MacroInvocation / Label / BuiltinFunctionCall node holds a clone of the
\* statement's span (node_span).
MacroInvocationStatement(name, margs, span) ==
    Statement("MacroInvocation", name, 0, margs, <<>>, <<>>, span, span)
LabelStatement(name, inner, span) ==
    Statement("Label", name, 0, <<>>, <<>>, inner, span, span)
BuiltinFunctionCallStatement(kind, args, span) ==
    Statement("BuiltinFunctionCall", kind, 0, <<>>, args, <<>>, span, span)

MacroArg(ty, str, lit) == [ty |-> ty, str |-> str, lit |-> lit]

\* BuiltinFunctionKind::from(&str) (huff_utils::ast): the kind named by the string.
BuiltinFunctionKindFrom(f) == f

\* spans.iter().position(|s| s.eq(&x)): the first index (1-based here), 0 for None.
RECURSIVE PositionFrom(_, _, _)
PositionFrom(sp, x, i) ==
    IF i > Len(sp) THEN 0
    ELSE IF sp[i] = x THEN i ELSE PositionFrom(sp, x, i + 1)
position(sp, x) == PositionFrom(sp, x, 1)

\* `if let Some(i) = position { curr_spans.append(&mut self.spans[(i + 1)..].to_vec()) }`
append_following(curr_spans, sp, i) ==
    IF i # 0 THEN curr_spans \o SubSeq(sp, i + 1, Len(sp)) ELSE curr_spans

\* nodes.iter().for_each(|a| curr_spans.extend_from_slice(&a.span.0))
RECURSIVE ExtendWithSpans(_, _)
ExtendWithSpans(curr_spans, nodes) ==
    IF nodes = <<>> THEN curr_spans
    ELSE ExtendWithSpans(curr_spans \o Head(nodes).span, Tail(nodes))

parse_constant_push(p) ==
    AndThen(match_kind(p, K("OpenBracket")), LAMBDA m :
        IF m.p.current_token.kind.tag = "Ident"
        THEN AndThen(consume(m.p), LAMBDA c :
             AndThen(match_kind(c.p, K("CloseBracket")), LAMBDA cb :
                 Ok(cb.p, <<m.p.current_token.kind.str, m.p.current_token.span>>)))
        ELSE Err([m.p EXCEPT !.spans = <<>>],
                 ParserError("InvalidConstant", m.p.current_token.kind, m.p.spans)))

parse_arg_call(p) ==
    AndThen(match_kind(p, K("LeftAngle")), LAMBDA m :
        IF m.p.current_token.kind.tag = "Ident"
        THEN AndThen(consume(m.p), LAMBDA c :
             AndThen(match_kind(c.p, K("RightAngle")), LAMBDA ra :
                 Ok(ra.p, <<m.p.current_token.kind.str, m.p.current_token.span>>)))
        ELSE Err([m.p EXCEPT !.spans = <<>>],
                 ParserError("InvalidArgCallIdent", m.p.current_token.kind, m.p.spans)))

\* parse_macro_call_arg with the spans kept when the argument is refused.
parse_macro_call_arg_keeping_spans(p) ==
    CASE p.current_token.kind.tag = "Literal" ->
            AndThen(consume(p), LAMBDA c :
                Ok(c.p, MacroArg("Literal", "", p.current_token.kind.num)))
      [] p.current_token.kind.tag = "Ident" ->
            AndThen(consume(p), LAMBDA c :
                Ok(c.p, MacroArg("Ident", p.current_token.kind.str, 0)))
      [] p.current_token.kind.tag = "LeftAngle" ->
            AndThen(consume(p), LAMBDA c :
            AndThen(match_kind(c.p, Ident("ARG_CALL")), LAMBDA m :
            AndThen(match_kind(m.p, K("RightAngle")), LAMBDA ra :
                Ok(ra.p, MacroArg("ArgCall", KindToString(m.val), 0)))))
      [] OTHER ->
            Err(p, ParserError("InvalidMacroArgs", p.current_token.kind, p.spans))

\* The match of one iteration of parse_macro_call_args: val = the MacroArg pushed.
parse_macro_call_arg(p) ==
    CASE p.current_token.kind.tag = "Literal" ->
            AndThen(consume(p), LAMBDA c :
                Ok(c.p, MacroArg("Literal", "", p.current_token.kind.num)))
      [] p.current_token.kind.tag = "Ident" ->
            AndThen(consume(p), LAMBDA c :
                Ok(c.p, MacroArg("Ident", p.current_token.kind.str, 0)))
      [] p.current_token.kind.tag = "LeftAngle" ->
            AndThen(consume(p), LAMBDA c :
            AndThen(match_kind(c.p, Ident("ARG_CALL")), LAMBDA m :
            AndThen(match_kind(m.p, K("RightAngle")), LAMBDA ra :
                Ok(ra.p, MacroArg("ArgCall", KindToString(m.val), 0)))))
      [] OTHER ->
            Err([p EXCEPT !.spans = <<>>],
                ParserError("InvalidMacroArgs", p.current_token.kind, p.spans))

RECURSIVE parse_macro_call_args_loop(_, _)
parse_macro_call_args_loop(p, args) ==
    IF check(p, K("CloseParen"))
    THEN AndThen(consume(p), LAMBDA c : Ok(c.p, args))
    ELSE AndThen(parse_macro_call_arg(p), LAMBDA a :
             IF check(a.p, K("Comma"))
             THEN AndThen(consume(a.p), LAMBDA c :
                      parse_macro_call_args_loop(c.p, Append(args, a.val)))
             ELSE parse_macro_call_args_loop(a.p, Append(args, a.val)))

parse_macro_call_args(p) ==
    AndThen(match_kind(p, K("OpenParen")), LAMBDA m :
        parse_macro_call_args_loop(m.p, <<>>))

parse_macro_call(p) == parse_macro_call_args(p)

parse_single_arg(p) ==
    AndThen(match_kind(p, K("OpenParen")), LAMBDA o :
    Let(match_kind(o.p, Num(0)), LAMBDA m :
        IF m.st = "Panic" THEN Propagate(m)
        ELSE IF m.st = "Ok" /\ m.val.tag = "Num"
        THEN AndThen(match_kind(m.p, K("CloseParen")), LAMBDA c : Ok(c.p, m.val.num))
        ELSE Err(m.p, ParserError("InvalidSingleArg", m.p.current_token.kind,
                                  <<o.p.current_token.span>>))))

----------------------------------------------------------------------------
(* Label bodies *)

\* The `Ident` arm of parse_label's match.
parse_label_ident(p, ident_str) ==
    AndThen(match_kind(p, Ident("MACRO_NAME")), LAMBDA m :
        IF m.p.current_token.kind.tag = "OpenParen"
        THEN AndThen(parse_macro_call(m.p), LAMBDA call :
                 Ok(call.p, MacroInvocationStatement(
                                ident_str, call.val,
                                append_following(<<p.current_token.span>>, call.p.spans,
                                                 position(call.p.spans, p.current_token.span)))))
        ELSE Ok(m.p, LabelCallStatement(ident_str, <<p.current_token.span>>)))

\* The match of one iteration of parse_label: val = the Statement pushed.
parse_label_statement(p) ==
    CASE p.current_token.kind.tag = "Literal" ->
            AndThen(consume(p), LAMBDA c :
                Ok(c.p, LiteralStatement(p.current_token.kind.num, <<p.current_token.span>>)))
      [] p.current_token.kind.tag = "Opcode" ->
            AndThen(consume(p), LAMBDA c :
                Ok(c.p, OpcodeStatement(p.current_token.kind.str, <<p.current_token.span>>)))
      [] p.current_token.kind.tag = "Ident" ->
            parse_label_ident(p, p.current_token.kind.str)
      [] p.current_token.kind.tag = "OpenBracket" ->
            AndThen(parse_constant_push(p), LAMBDA c :
                Ok(c.p, ConstantStatement(c.val[1], <<c.val[2]>>)))
      [] p.current_token.kind.tag = "LeftAngle" ->
            AndThen(parse_arg_call(p), LAMBDA c :
                Ok(c.p, ArgCallStatement(c.val[1], <<c.val[2]>>)))
      [] OTHER ->
            Err(p, ParserError("InvalidTokenInLabelDefinition", p.current_token.kind,
                               <<p.current_token.span>>))

\* parse_label_loop with the end of the stream ending the label as well.
RECURSIVE parse_label_loop_until_eof(_, _)
parse_label_loop_until_eof(p, statements) ==
    IF check(p, Label("NEXT_LABEL")) \/ check(p, K("CloseBrace")) \/ check(p, K("Eof"))
    THEN Ok(p, statements)
    ELSE AndThen(parse_label_statement(p), LAMBDA s :
             parse_label_loop_until_eof(s.p, Append(statements, s.val)))

RECURSIVE parse_label_loop(_, _)
parse_label_loop(p, statements) ==
    IF check(p, Label("NEXT_LABEL")) \/ check(p, K("CloseBrace"))
    THEN Ok(p, statements)
    ELSE AndThen(parse_label_statement(p), LAMBDA s :
             parse_label_loop(s.p, Append(statements, s.val)))

\* parse_label with only `}` ending the label.
RECURSIVE parse_label_loop_to_close_brace(_, _)
parse_label_loop_to_close_brace(p, statements) ==
    IF check(p, K("CloseBrace"))
    THEN Ok(p, statements)
    ELSE AndThen(parse_label_statement(p), LAMBDA s :
             parse_label_loop_to_close_brace(s.p, Append(statements, s.val)))

parse_label_to_close_brace(p) ==
    AndThen(match_kind(p, K("Colon")), LAMBDA m : parse_label_loop_to_close_brace(m.p, <<>>))

parse_label(p) ==
    AndThen(match_kind(p, K("Colon")), LAMBDA m : parse_label_loop(m.p, <<>>))

----------------------------------------------------------------------------
(* Macro bodies *)

\* parse_body_ident without the look at the token after the Ident.
parse_body_ident_label_call(p, ident_str) ==
    AndThen(match_kind(p, Ident("MACRO_NAME")), LAMBDA m :
        Ok(m.p, LabelCallStatement(ident_str, <<p.current_token.span>>)))

\* The `Ident` arm of parse_body's match.
parse_body_ident(p, ident_str) ==
    AndThen(match_kind(p, Ident("MACRO_NAME")), LAMBDA m :
        IF m.p.current_token.kind.tag = "OpenParen"
        THEN AndThen(parse_macro_call(m.p), LAMBDA call :
                 Ok(call.p, MacroInvocationStatement(
                                ident_str, call.val,
                                append_following(<<p.current_token.span>>, call.p.spans,
                                                 position(call.p.spans, p.current_token.span)))))
        ELSE Ok(m.p, LabelCallStatement(ident_str, <<p.current_token.span>>)))

\* The `Label` arm of parse_body's match.
parse_body_label(p, l) ==
    AndThen(consume(p), LAMBDA c :
    AndThen(parse_label(c.p), LAMBDA inner :
        Ok(inner.p, LabelStatement(l, inner.val,
                                   ExtendWithSpans(<<p.current_token.span>>, inner.val)))))

\* The `BuiltinFunction` arm of parse_body's match.
parse_body_builtin(p, f) ==
    AndThen(match_kind(p, BuiltinFunction("")), LAMBDA m :
    AndThen(parse_args(m.p, TRUE, FALSE, FALSE), LAMBDA args :
        Ok(args.p, BuiltinFunctionCallStatement(
                       BuiltinFunctionKindFrom(f), args.val,
                       ExtendWithSpans(<<p.current_token.span>>, args.val)))))

\* The match of one iteration of parse_body: val = the Statement pushed.
parse_body_statement(p) ==
    CASE p.current_token.kind.tag = "Literal" ->
            AndThen(consume(p), LAMBDA c :
                Ok(c.p, LiteralStatement(p.current_token.kind.num, <<p.current_token.span>>)))
      [] p.current_token.kind.tag = "Opcode" ->
            AndThen(consume(p), LAMBDA c :
                Ok(c.p, OpcodeStatement(p.current_token.kind.str, <<p.current_token.span>>)))
      [] p.current_token.kind.tag = "Ident" ->
            parse_body_ident(p, p.current_token.kind.str)
      [] p.current_token.kind.tag = "Label" ->
            parse_body_label(p, p.current_token.kind.str)
      [] p.current_token.kind.tag = "OpenBracket" ->
            AndThen(parse_constant_push(p), LAMBDA c :
                Ok(c.p, ConstantStatement(c.val[1], <<c.val[2]>>)))
      [] p.current_token.kind.tag = "LeftAngle" ->
            AndThen(parse_arg_call(p), LAMBDA c :
                Ok(c.p, ArgCallStatement(c.val[1], <<c.val[2]>>)))
      [] p.current_token.kind.tag = "BuiltinFunction" ->
            parse_body_builtin(p, p.current_token.kind.str)
      [] OTHER ->
            Err(p, ParserError("InvalidTokenInMacroBody", p.current_token.kind,
                               <<p.current_token.span>>))

RECURSIVE parse_body_loop(_, _)
parse_body_loop(p, statements) ==
    IF check(p, K("CloseBrace"))
    THEN AndThen(match_kind(p, K("CloseBrace")), LAMBDA m : Ok(m.p, statements))
    ELSE AndThen(parse_body_statement(p), LAMBDA s :
             parse_body_loop(s.p, Append(statements, s.val)))

parse_body(p) ==
    AndThen(match_kind(p, K("OpenBrace")), LAMBDA m : parse_body_loop(m.p, <<>>))
----------------------------------------------------------------------------
(* Tables *)

\* TableKind::from(TokenKind) (huff_utils::ast)
TableKindFrom(kind) == kind.tag

\* .iter().map(|s| if let LabelCall(l) = &s.ty { l.len() } else { 0 }).sum()
RECURSIVE SumLabelLengths(_)
SumLabelLengths(statements) ==
    IF statements = <<>> THEN 0
    ELSE (IF Head(statements).ty = "LabelCall" THEN Len(Head(statements).str) ELSE 0)
         + SumLabelLengths(Tail(statements))

\* table_size with no case for the packed jump table: both jump tables take
\* 32 bytes an entry.
table_size_unpacked(kind, table_statements) ==
    CASE kind \in {"JumpTable", "JumpTablePacked"} -> Len(table_statements) * 32
      [] kind = "CodeTable" -> SumLabelLengths(table_statements) \div 2

table_size(kind, table_statements) ==
    CASE kind = "JumpTablePacked" -> Len(table_statements) * 2
      [] kind = "JumpTable" -> Len(table_statements) * 32
      [] kind = "CodeTable" -> SumLabelLengths(table_statements) \div 2

RECURSIVE parse_table_body_loop(_, _)
parse_table_body_loop(p, statements) ==
    IF check(p, K("CloseBrace"))
    THEN AndThen(match_kind(p, K("CloseBrace")), LAMBDA m : Ok(m.p, statements))
    ELSE IF p.current_token.kind.tag = "Ident"
         THEN AndThen(consume(p), LAMBDA c :
                  parse_table_body_loop(
                      c.p, Append(statements,
                                  LabelCallStatement(p.current_token.kind.str,
                                                     <<p.current_token.span>>))))
         ELSE Err(p, ParserError("InvalidTableBodyToken", p.current_token.kind,
                                 <<p.current_token.span>>))

parse_table_body(p) ==
    AndThen(match_kind(p, K("OpenBrace")), LAMBDA m : parse_table_body_loop(m.p, <<>>))

\* `let _ = self.match_kind(k);`: an Err is dropped, the parser stays as it is.
optional_match(p, kind) ==
    Let(match_kind(p, kind), LAMBDA m : IF m.st = "Err" THEN Ok(p, <<>>) ELSE m)

\* TableDefinition::new (huff_utils::ast).  size is the number whose decimal
\* string is handed to str_to_bytes32.
TableDefinition(name, kind, statements, size, span) ==
    [name |-> name, kind |-> kind, statements |-> statements, size |-> size, span |-> span]

parse_table(p) ==
    AndThen(match_kind(p, p.current_token.kind), LAMBDA k :
    AndThen(match_kind(k.p, Ident("TABLE_NAME")), LAMBDA n :
    AndThen(optional_match(n.p, K("OpenParen")), LAMBDA o1 :
    AndThen(optional_match(o1.p, K("CloseParen")), LAMBDA o2 :
    AndThen(optional_match(o2.p, K("Assign")), LAMBDA o3 :
    AndThen(parse_table_body(o3.p), LAMBDA b :
        Ok(b.p, TableDefinition(KindToString(n.val), TableKindFrom(k.val), b.val,
                                table_size(TableKindFrom(k.val), b.val), b.p.spans))))))))

----------------------------------------------------------------------------
(* Constants *)

ConstantDefinition(name, value, span) == [name |-> name, value |-> value, span |-> span]

\* ConstVal: FreeStoragePointer or Literal(l)
ConstVal(ty, lit) == [ty |-> ty, lit |-> lit]

\* The match on the value of a constant; `assigned` is the parser after `=`.
parse_constant_value(assigned, name) ==
    CASE assigned.current_token.kind.tag = "FreeStoragePointer" ->
            AndThen(consume(assigned), LAMBDA v :
                Ok([v.p EXCEPT !.spans = <<>>],
                   ConstantDefinition(name, ConstVal("FreeStoragePointer", 0), v.p.spans)))
      [] assigned.current_token.kind.tag = "Literal" ->
            AndThen(consume(assigned), LAMBDA v :
                Ok([v.p EXCEPT !.spans = <<>>],
                   ConstantDefinition(name,
                                      ConstVal("Literal", assigned.current_token.kind.num),
                                      v.p.spans)))
      [] OTHER ->
            Err([assigned EXCEPT !.spans = <<>>],
                ParserError("InvalidConstantValue", assigned.current_token.kind,
                            assigned.spans))

parse_constant(p) ==
    AndThen(match_kind(p, K("Constant")), LAMBDA c :
    AndThen(match_kind(c.p, Ident("x")), LAMBDA i :
    Let(peek_behind(i.p), LAMBDA behind :
        IF ~behind.some THEN Panic(i.p)
        ELSE IF behind.tok.kind.tag # "Ident"
        THEN Err([i.p EXCEPT !.spans = <<>>],
                 ParserError("UnexpectedType", behind.tok.kind, i.p.spans))
        ELSE AndThen(match_kind(i.p, K("Assign")), LAMBDA a :
                 parse_constant_value(a.p, behind.tok.kind.str)))))

----------------------------------------------------------------------------
(* Functions and events *)

\* Keccak::v256() over the bytes of s, first 4 bytes kept (tiny_keccak): an
\* uninterpreted function of s.
Keccak256First4(s) == [keccak256_first4_of |-> s]

\* strings.join(sep)
RECURSIVE join(_, _)
join(strings, sep) ==
    IF strings = <<>> THEN ""
    ELSE IF Len(strings) = 1 THEN strings[1]
    ELSE strings[1] \o sep \o join(Tail(strings), sep)

\* inputs.iter().map(|i| i.arg_type.as_ref().unwrap().clone()).collect()
input_types(inputs) == [i \in 1..Len(inputs) |-> inputs[i].arg_type.v]

\* signature_string with the types joined by ", ".
signature_string_spaced(name, inputs) ==
    name \o "(" \o join(input_types(inputs), ", ") \o ")"

\* format!("{}({})", name, input_types.join(","))
signature_string(name, inputs) == name \o "(" \o join(input_types(inputs), ",") \o ")"

function_signature(name, inputs) == Keccak256First4(signature_string(name, inputs))

Function(name, signature, inputs, fn_type, outputs, span) ==
    [name |-> name, signature |-> signature, inputs |-> inputs, fn_type |-> fn_type,
     outputs |-> outputs, span |-> span]

IsFunctionType(kind) == kind.tag \in {"View", "Pure", "Payable", "NonPayable"}

\* parse_function from the function type on; `inputs` is the result of the
\* first parse_args.
parse_function_type(name, inputs) ==
    IF ~IsFunctionType(inputs.p.current_token.kind)
    THEN Err(inputs.p, ParserError("UnexpectedType", inputs.p.current_token.kind,
                                   inputs.p.spans))
    ELSE AndThen(consume(inputs.p), LAMBDA c :
         AndThen(match_kind(c.p, K("Returns")), LAMBDA r :
         AndThen(parse_args(r.p, TRUE, TRUE, FALSE), LAMBDA outputs :
             Ok(outputs.p,
                Function(name, function_signature(name, inputs.val), inputs.val,
                         inputs.p.current_token.kind.tag, outputs.val, outputs.p.spans)))))

parse_function(p) ==
    AndThen(match_kind(p, K("Function")), LAMBDA f :
    AndThen(match_kind(f.p, Ident("x")), LAMBDA i :
    Let(peek_behind(i.p), LAMBDA behind :
        IF ~behind.some THEN Panic(i.p)
        ELSE IF behind.tok.kind.tag # "Ident"
        THEN Err(i.p, ParserError("InvalidName", behind.tok.kind, i.p.spans))
        ELSE AndThen(parse_args(i.p, TRUE, TRUE, FALSE), LAMBDA inputs :
                 parse_function_type(behind.tok.kind.str, inputs)))))

Event(name, parameters, span) == [name |-> name, parameters |-> parameters, span |-> span]

parse_event(p) ==
    AndThen(match_kind(p, K("Event")), LAMBDA e :
    AndThen(match_kind(e.p, Ident("x")), LAMBDA i :
    Let(peek_behind(i.p), LAMBDA behind :
        IF ~behind.some THEN Panic(i.p)
        ELSE IF behind.tok.kind.tag # "Ident"
        THEN Err(i.p, ParserError("InvalidName", behind.tok.kind, i.p.spans))
        ELSE AndThen(parse_args(i.p, TRUE, TRUE, TRUE), LAMBDA parameters :
                 Ok(parameters.p,
                    Event(behind.tok.kind.str, parameters.val, parameters.p.spans))))))

----------------------------------------------------------------------------
(* Macros *)

\* MacroDefinition::new (huff_utils::ast)
MacroDefinition(name, parameters, statements, takes, returns, span) ==
    [name |-> name, parameters |-> parameters, statements |-> statements,
     takes |-> takes, returns |-> returns, span |-> span]

parse_macro(p) ==
    AndThen(match_kind(p, K("Macro")), LAMBDA m :
    AndThen(match_kind(m.p, Ident("MACRO_NAME")), LAMBDA n :
    AndThen(parse_args(n.p, TRUE, FALSE, FALSE), LAMBDA macro_arguments :
    AndThen(match_kind(macro_arguments.p, K("Assign")), LAMBDA a :
    AndThen(match_kind(a.p, K("Takes")), LAMBDA t :
    AndThen(parse_single_arg(t.p), LAMBDA macro_takes :
    AndThen(match_kind(macro_takes.p, K("Returns")), LAMBDA r :
    AndThen(parse_single_arg(r.p), LAMBDA macro_returns :
    AndThen(parse_body(macro_returns.p), LAMBDA macro_statements :
        Ok(macro_statements.p,
           MacroDefinition(KindToString(n.val), macro_arguments.val, macro_statements.val,
                           macro_takes.val, macro_returns.val,
                           macro_statements.p.spans)))))))))))

----------------------------------------------------------------------------
(* Imports.  The file system is the environment: the files that exist, and  *)
(* the path strings that end in ".huff".                                    *)

FilesOnDisk == {"a.huff", "b.huff", "notes.txt"}
EndsWithHuff(path) == path \in {"a.huff", "b.huff", "missing.huff"}

\* path.exists() && path.is_file() && path.to_str().unwrap().ends_with(".huff")
import_path_ok(path) == path \in FilesOnDisk /\ EndsWithHuff(path)

parse_imports(p) ==
    AndThen(match_kind(p, K("Include")), LAMBDA i :
    AndThen(match_kind(i.p, Str("x")), LAMBDA s :
    Let(peek_behind(s.p), LAMBDA behind :
        IF ~behind.some THEN Panic(s.p)
        ELSE IF behind.tok.kind.tag # "Str"
        THEN Err([s.p EXCEPT !.spans = <<>>],
                 ParserError("InvalidName", behind.tok.kind, s.p.spans))
        ELSE IF ~import_path_ok(behind.tok.kind.str)
        THEN Err([s.p EXCEPT !.spans = <<>>],
                 ParserError("InvalidImportPath", PathString(behind.tok.kind.str),
                             s.p.spans))
        ELSE Ok(s.p, behind.tok.kind.str))))

----------------------------------------------------------------------------
(* The top-level driver *)

Contract(imports, functions, events, constants, macros, tables) ==
    [imports |-> imports, functions |-> functions, events |-> events,
     constants |-> constants, macros |-> macros, tables |-> tables]

EmptyContract == Contract(<<>>, <<>>, <<>>, <<>>, <<>>, <<>>)

\* IsTrivia without the Comment pattern.
IsTrivia_whitespace_only(token) == token.kind.tag = "Whitespace"

IsTrivia(token) == token.kind.tag \in {"Whitespace", "Comment"}
NotTrivia(token) == ~IsTrivia(token)

\* self.tokens.retain(|token| !matches!(token.kind, Whitespace | Comment(_)))
retain_non_trivia(toks) == SelectSeq(toks, NotTrivia)

\* parse_imports_loop with each import put at the front of the list.
RECURSIVE parse_imports_loop_prepend(_, _)
parse_imports_loop_prepend(p, contract) ==
    IF check(p, K("Eof")) \/ check(p, K("Define"))
    THEN Ok(p, contract)
    ELSE AndThen(parse_imports(p), LAMBDA i :
             parse_imports_loop_prepend(
                 i.p, [contract EXCEPT !.imports = <<i.val>> \o contract.imports]))

RECURSIVE parse_imports_loop(_, _)
parse_imports_loop(p, contract) ==
    IF check(p, K("Eof")) \/ check(p, K("Define"))
    THEN Ok(p, contract)
    ELSE AndThen(parse_imports(p), LAMBDA i :
             parse_imports_loop(
                 i.p, [contract EXCEPT !.imports = Append(contract.imports, i.val)]))

\* invalid_definition with the token after `#define` taken first.
invalid_definition_consuming(p) ==
    AndThen(consume(p), LAMBDA c :
        Err(c.p, ParserError("InvalidDefinition", K(""), c.p.spans)))

\* The `_` arm of the match after `#define`.
invalid_definition(p) == Err(p, ParserError("InvalidDefinition", K(""), p.spans))

\* `match self.current_token.kind { ... }` after `#define`: val = the contract
\* with the parsed definition pushed.
parse_definition(p, contract) ==
    CASE p.current_token.kind.tag = "Function" ->
            AndThen(parse_function(p), LAMBDA r :
                Ok(r.p, [contract EXCEPT !.functions = Append(contract.functions, r.val)]))
      [] p.current_token.kind.tag = "Event" ->
            AndThen(parse_event(p), LAMBDA r :
                Ok(r.p, [contract EXCEPT !.events = Append(contract.events, r.val)]))
      [] p.current_token.kind.tag = "Constant" ->
            AndThen(parse_constant(p), LAMBDA r :
                Ok(r.p, [contract EXCEPT !.constants = Append(contract.constants, r.val)]))
      [] p.current_token.kind.tag = "Macro" ->
            AndThen(parse_macro(p), LAMBDA r :
                Ok(r.p, [contract EXCEPT !.macros = Append(contract.macros, r.val)]))
      [] p.current_token.kind.tag \in {"JumpTable", "JumpTablePacked", "CodeTable"} ->
            AndThen(parse_table(p), LAMBDA r :
                Ok(r.p, [contract EXCEPT !.tables = Append(contract.tables, r.val)]))
      [] OTHER -> invalid_definition(p)

\* parse_definitions_loop with `#include` taken between the declarations too.
RECURSIVE parse_definitions_loop_with_imports(_, _)
parse_definitions_loop_with_imports(p, contract) ==
    IF check(p, K("Eof"))
    THEN Ok(p, contract)
    ELSE IF check(p, K("Include"))
    THEN AndThen(parse_imports(p), LAMBDA i :
             parse_definitions_loop_with_imports(
                 i.p, [contract EXCEPT !.imports = Append(contract.imports, i.val)]))
    ELSE AndThen(match_kind([p EXCEPT !.spans = <<>>], K("Define")), LAMBDA d :
         AndThen(parse_definition(d.p, contract), LAMBDA r :
             parse_definitions_loop_with_imports(r.p, r.val)))

RECURSIVE parse_definitions_loop(_, _)
parse_definitions_loop(p, contract) ==
    IF check(p, K("Eof"))
    THEN Ok(p, contract)
    ELSE AndThen(match_kind([p EXCEPT !.spans = <<>>], K("Define")), LAMBDA d :
         AndThen(parse_definition(d.p, contract), LAMBDA r :
             parse_definitions_loop(r.p, r.val)))

\* parse_retained with the cursor put back at the first token on success.
parse_retained_rewinding(p) ==
    IF p.tokens = <<>> THEN Panic(p)
    ELSE AndThen(parse_imports_loop(reset(p), EmptyContract), LAMBDA imports :
         AndThen(parse_definitions_loop(imports.p, imports.val), LAMBDA r :
             Ok(reset(r.p), r.val)))

\* reset() panics on an empty token vector (tokens.get(0).unwrap()).
parse_retained(p) ==
    IF p.tokens = <<>> THEN Panic(p)
    ELSE AndThen(parse_imports_loop(reset(p), EmptyContract), LAMBDA imports :
             parse_definitions_loop(imports.p, imports.val))

parse(p) == parse_retained([p EXCEPT !.tokens = retain_non_trivia(p.tokens)])
----------------------------------------------------------------------------
(* Inputs: the token vectors handed to Parser::new.  Each ends in Eof, as   *)
(* the lexer's output does.                                                 *)

MaxArgTokens == 3     \* tokens between the parentheses of an argument list
MaxWidth == 264       \* largest size n of a Uint(n) / Int(n) / Bytes(n) token
MaxDecls == 3         \* top-level clauses of a file
MaxTrivia == 2         \* Whitespace and Comment tokens put into a token vector
MaxTableBody == 3     \* tokens between the braces of a table

SeqsUpTo(S, n) == UNION {[1..k -> S] : k \in 0..n}

RECURSIVE Flatten(_)
Flatten(seqs) == IF seqs = <<>> THEN <<>> ELSE Head(seqs) \o Flatten(Tail(seqs))

Eof == K("Eof")
Uint256 == PrimitiveType("Uint", 256)
EmptyParens == <<K("OpenParen"), K("CloseParen")>>
TakesReturns ==
    <<K("Assign"), K("Takes"), K("OpenParen"), Num(0), K("CloseParen"),
      K("Returns"), K("OpenParen"), Num(1), K("CloseParen")>>
Parens(args) == <<K("OpenParen")>> \o args \o <<K("CloseParen")>>
Braces(body) == <<K("OpenBrace")>> \o body \o <<K("CloseBrace")>>

\* Argument lists in each of the places parse_args is called from.
ArgAlphabet ==
    {Uint256, ArrayType("Int", 8, <<0>>), ArrayType("Uint", 7, <<0>>), Ident("a"),
     K("Comma"), K("Indexed")}

ArgListInputs ==
    UNION {
        { <<K("Define"), K("Function"), Ident("f")>> \o Parens(args)
              \o <<K("View"), K("Returns")>> \o EmptyParens \o <<Eof>>,
          <<K("Define"), K("Function"), Ident("f")>> \o Parens(<<Uint256, Ident("a")>>)
              \o <<K("Payable"), K("Returns")>> \o Parens(args) \o <<Eof>>,
          <<K("Define"), K("Event"), Ident("E")>> \o Parens(args) \o <<Eof>>,
          <<K("Define"), K("Macro"), Ident("M")>> \o Parens(args) \o TakesReturns
              \o Braces(<<>>) \o <<Eof>>,
          <<K("Define"), K("Macro"), Ident("M")>> \o EmptyParens \o TakesReturns
              \o Braces(<<BuiltinFunction("__tablesize")>> \o Parens(args)) \o <<Eof>> }
        : args \in SeqsUpTo(ArgAlphabet, MaxArgTokens) }

\* One type token of every primitive and size, alone in a typed argument list;
\* and every kind of token after the `function` keyword.
SizedPrims == {"Uint", "Int", "Bytes"}
UnsizedPrims == {"Bool", "Address", "String", "DynBytes"}
TypeTokens ==
    {PrimitiveType(prim, n) : prim \in SizedPrims, n \in 0..MaxWidth}
    \cup {ArrayType(prim, n, <<0>>) : prim \in SizedPrims, n \in 0..MaxWidth}
    \cup {PrimitiveType(prim, 0) : prim \in UnsizedPrims}
    \cup {ArrayType(prim, 0, <<3>>) : prim \in UnsizedPrims}

TypeInputs ==
    { <<K("Define"), K("Function"), Ident("f")>> \o Parens(<<t>>)
          \o <<K("View"), K("Returns")>> \o EmptyParens \o <<Eof>> : t \in TypeTokens }
    \cup { <<K("Define"), K("Event"), Ident("E")>> \o Parens(<<t, K("Indexed")>>) \o <<Eof>>
           : t \in TypeTokens }

\* A type token first, for a call of parse_arg_type on the parser as constructed.
TypeFirstInputs == { <<t, K("CloseParen"), Eof>> : t \in TypeTokens }

NameTokens ==
    {Ident("f"), Str("f"), Num(1), Literal(1), Opcode("add"), Label("f"), Uint256,
     BuiltinFunction("__tablesize"), Eof}
    \cup {K(tag) : tag \in {"Define", "Include", "Function", "Event", "Constant", "Macro",
                            "JumpTable", "JumpTablePacked", "CodeTable", "Takes", "Returns",
                            "View", "Pure", "Payable", "NonPayable", "Indexed",
                            "OpenBrace", "CloseBrace", "OpenParen", "CloseParen",
                            "OpenBracket", "CloseBracket", "LeftAngle", "RightAngle",
                            "Comma", "Colon", "Assign", "FreeStoragePointer"}}

NameInputs ==
    { <<K("Define"), kw, name>> \o EmptyParens \o <<K("View"), K("Returns")>>
          \o EmptyParens \o <<Eof>>
      : kw \in {K("Function"), K("Event")}, name \in NameTokens }

\* Tables of each kind, with and without the optional `()` and `=`.
TableAlphabet == {Ident("a"), Ident("bb"), Num(1)}
TableHeads == {<<>>, EmptyParens, EmptyParens \o <<K("Assign")>>, <<K("Assign")>>}

TableInputs ==
    { <<K("Define"), K(kw), Ident("T")>> \o head \o Braces(body) \o <<Eof>>
      : kw \in {"JumpTable", "JumpTablePacked", "CodeTable"},
        head \in TableHeads,
        body \in SeqsUpTo(TableAlphabet, MaxTableBody) }

\* Files: a sequence of top-level clauses.
Clauses ==
    { <<K("Include"), Str("a.huff")>>,
      <<K("Include"), Str("b.huff")>>,
      <<K("Define"), K("Function"), Ident("f")>> \o Parens(<<Uint256, Ident("a")>>)
          \o <<K("View"), K("Returns")>> \o EmptyParens,
      <<K("Define"), K("Function"), Ident("f")>> \o Parens(<<Uint256, Ident("b")>>)
          \o <<K("Pure"), K("Returns")>> \o Parens(<<PrimitiveType("Bool", 0)>>),
      <<K("Define"), K("Event"), Ident("E")>> \o Parens(<<Uint256, K("Indexed"), Ident("a")>>),
      <<K("Define"), K("Constant"), Ident("C"), K("Assign"), K("FreeStoragePointer")>>,
      <<K("Define"), K("Macro"), Ident("M")>> \o Parens(<<Ident("a")>>) \o TakesReturns
          \o Braces(<<Literal(32), Ident("N"), K("OpenParen"), K("LeftAngle"), Ident("a"),
                      K("RightAngle"), K("CloseParen"), Ident("err"),
                      Label("err"), K("Colon"), Opcode("return")>>),
      <<K("Define"), K("JumpTable"), Ident("T")>> \o Braces(<<Ident("a"), Ident("bb")>>),
      <<K("Define"), K("Takes")>> }

FileInputs == { Flatten(cs) \o <<Eof>> : cs \in SeqsUpTo(Clauses, MaxDecls) }

\* The seed scenarios of the specification (S1, S3, S4, S5, S6), and one
\* declaration of each of the other shapes.
ScenarioInputs ==
    { <<K("Define"), K("Function"), Ident("test")>> \o Parens(<<Uint256>>)
          \o <<K("View"), K("Returns")>> \o Parens(<<Uint256>>) \o <<Eof>>,
      <<K("Define"), K("Constant"), Ident("SLOT"), K("Assign"), K("FreeStoragePointer"), Eof>>,
      <<K("Define"), K("Macro"), Ident("M")>> \o EmptyParens \o TakesReturns
          \o Braces(<<Literal(32), Opcode("mstore"), K("OpenBracket"), Ident("X"),
                      K("CloseBracket"), K("LeftAngle"), Ident("y"), K("RightAngle"),
                      Ident("BAR"), K("OpenParen"), K("CloseParen"),
                      Label("err"), K("Colon"), Literal(0), Literal(0), Opcode("return")>>)
          \o <<Eof>>,
      <<K("Define"), K("JumpTablePacked"), Ident("T")>>
          \o Braces(<<Ident("a"), Ident("b"), Ident("c")>>) \o <<Eof>>,
      <<K("Define"), K("Function"), Ident("f")>> \o Parens(<<PrimitiveType("Uint", 7)>>)
          \o <<K("View"), K("Returns")>> \o EmptyParens \o <<Eof>>,
      <<K("Define"), K("Function"), Ident("g")>> \o EmptyParens
          \o <<K("NonPayable"), K("Returns")>> \o EmptyParens \o <<Eof>>,
      <<K("Define"), K("Event"), Ident("F")>> \o EmptyParens \o <<Eof>>,
      <<K("Define"), K("Constant"), Ident("D"), K("Assign"), Literal(1), Eof>>,
      <<K("Define"), K("CodeTable"), Ident("U")>> \o Braces(<<Ident("ccc"), Ident("dd")>>)
          \o <<Eof>>,
      <<K("Define"), K("Macro"), Ident("N")>> \o EmptyParens \o TakesReturns
          \o Braces(<<BuiltinFunction("__tablesize")>> \o Parens(<<Ident("U")>>)
                     \o <<Label("l"), K("Colon"), Literal(0), K("OpenBracket"), Ident("D"),
                          K("CloseBracket"), Opcode("return")>>)
          \o <<Eof>> }

\* Every declaration of ScenarioInputs cut off after each of its tokens: the
\* end of the stream inside each construct.
TruncatedInputs ==
    UNION { { SubSeq(s, 1, k) \o <<Eof>> : k \in 0..(Len(s) - 1) } : s \in ScenarioInputs }

\* Every kind of token after `#define`.
DefineInputs == { <<K("Define"), t, Ident("x"), Eof>> : t \in NameTokens }

\* Every kind of token at top level after a whole declaration.
AfterDeclarationInputs ==
    { <<K("Define"), K("Constant"), Ident("C"), K("Assign"), K("FreeStoragePointer"),
        t, Str("a.huff"), Eof>> : t \in NameTokens }

Inputs ==
    ArgListInputs \cup TypeInputs \cup TypeFirstInputs \cup NameInputs \cup TableInputs \cup FileInputs
    \cup ScenarioInputs \cup TruncatedInputs \cup DefineInputs \cup AfterDeclarationInputs

\* Short token vectors for the cursor primitives, and the kinds handed to
\* match_kind.
MaxCursorTokens == 3  \* tokens before the Eof of a vector of CursorInputs

CursorAlphabet == {Ident("a"), Num(1), K("Comma")}
CursorInputs == { s \o <<Eof>> : s \in SeqsUpTo(CursorAlphabet, MaxCursorTokens) }
MatchKinds == {Ident("MACRO_NAME"), Num(0), K("Comma"), K("Define"), Eof}

\* Macro bodies: up to MaxBodyChunks statements, label heads and stray commas
\* between the braces of a macro.
MaxBodyChunks == 3     \* chunks between the braces of a macro of BodyInputs
MaxMacroArgTokens == 4 \* tokens after the `(` of a vector of MacroArgInputs

BodyChunks ==
    { <<Literal(1)>>,
      <<Opcode("add")>>,
      <<K("OpenBracket"), Ident("X"), K("CloseBracket")>>,
      <<K("LeftAngle"), Ident("a"), K("RightAngle")>>,
      <<Ident("F")>> \o Parens(<<Literal(2), K("Comma"), Ident("b")>>),
      <<Ident("lbl")>>,
      <<Label("l"), K("Colon")>>,
      <<BuiltinFunction("__tablesize")>> \o Parens(<<Ident("T")>>),
      <<K("Comma")>> }

BodyInputs ==
    { <<K("Define"), K("Macro"), Ident("M")>> \o EmptyParens \o TakesReturns
          \o Braces(Flatten(chunks)) \o <<Eof>>
      : chunks \in SeqsUpTo(BodyChunks, MaxBodyChunks) }

\* The arguments of a macro invocation, from its `(` on, with and without `)`.
MacroArgAlphabet ==
    {Literal(1), Ident("a"), K("LeftAngle"), K("RightAngle"), K("Comma")}

MacroArgInputs ==
    { <<K("OpenParen")>> \o args \o tail
      : args \in SeqsUpTo(MacroArgAlphabet, MaxMacroArgTokens),
        tail \in {<<K("CloseParen"), Eof>>, <<Eof>>} }

\* Token vectors for two calls of parse() on one parser: every kind of token
\* after `#include`, alone and after a whole `#include`, and whole and broken
\* declarations with and without an `#include` before them.
ReuseInputs ==
    { <<K("Include"), t, Eof>> : t \in NameTokens }
    \cup { <<K("Include"), Str("a.huff"), K("Include"), t, Eof>> : t \in NameTokens }
    \cup ScenarioInputs
    \cup { <<K("Include"), Str("b.huff")>> \o s : s \in ScenarioInputs }
    \cup DefineInputs

\* Token vectors with Whitespace and Comment tokens among the others.
TriviaTokens == {K("Whitespace"), Comment("c")}

\* The token vectors the tokens of TriviaTokens are put into, each with the
\* first position they are put before.
TriviaBase(kinds, from) == [kinds |-> kinds, from |-> from]

TriviaBases ==
    { TriviaBase(<<K("Define"), K("Function"), Ident("test")>> \o Parens(<<Uint256>>)
                     \o <<K("View"), K("Returns")>> \o Parens(<<Uint256>>) \o <<Eof>>, 1),
      TriviaBase(<<K("Include"), Str("a.huff"), K("Define"), K("Constant"), Ident("C"),
                   K("Assign"), K("FreeStoragePointer"), Eof>>, 1),
      TriviaBase(<<K("Define"), K("Event"), Ident("E")>>
                     \o Parens(<<Uint256, K("Indexed"), Ident("a")>>) \o <<Eof>>, 1),
      TriviaBase(<<K("Define"), K("Macro"), Ident("M")>> \o EmptyParens \o TakesReturns
                     \o Braces(<<Literal(32), Label("l"), K("Colon"), Opcode("mstore")>>)
                     \o <<Eof>>, 15),
      TriviaBase(<<K("Define"), K("JumpTable"), Ident("T")>>
                     \o Braces(<<Ident("a"), Ident("bb")>>) \o <<Eof>>, 1),
      TriviaBase(<<K("Define"), K("Takes"), Eof>>, 1),
      TriviaBase(<<K("Define"), K("Macro"), Ident("M")>> \o Parens(<<Uint256>>)
                     \o <<Eof>>, 1) }

\* kinds with the token t put before its i-th token.
InsertAt(kinds, i, t) == SubSeq(kinds, 1, i - 1) \o <<t>> \o SubSeq(kinds, i, Len(kinds))

\* kinds with up to n of the tokens of TriviaTokens put before its tokens from
\* the one at position `from` on.
RECURSIVE WithTrivia(_, _, _)
WithTrivia(kinds, from, n) ==
    IF n = 0 THEN {kinds}
    ELSE {kinds} \cup UNION { WithTrivia(InsertAt(kinds, i, t), i + 1, n - 1)
                              : i \in from..Len(kinds), t \in TriviaTokens }

TriviaInputs == UNION { WithTrivia(b.kinds, b.from, MaxTrivia) : b \in TriviaBases }

----------------------------------------------------------------------------
(* The state machine: Parser::new(input), then one call on the parser *)

NoRet == [st |-> "", contract |-> EmptyContract, kind |-> K(""), tok |-> NoToken, margs |-> <<>>,
          err |-> NoErr]

Parser == [tokens |-> tokens, cursor |-> cursor, current_token |-> current_token,
           spans |-> spans, steps |-> steps]

\* Parser::new(input)
Constructed(q) ==
    /\ tokens = q.tokens
    /\ cursor = q.cursor
    /\ current_token = q.current_token
    /\ spans = q.spans
    /\ steps = q.steps

InitOn(kinds) ==
    /\ input = Lex(kinds)
    /\ Constructed(new(input))
    /\ pc = "new"
    /\ ret = NoRet

Init == \E kinds \in Inputs : InitOn(kinds)

\* The parser as the call with result r leaves it.
Left(r) ==
    /\ tokens' = r.p.tokens
    /\ cursor' = r.p.cursor
    /\ current_token' = r.p.current_token
    /\ spans' = r.p.spans
    /\ steps' = r.p.steps

\* The end of a call of parse() with result r: a return of Ok or Err, a panic,
\* or a loop that never exits.
ParseEnds(r) ==
    /\ Left(r)
    /\ pc' = CASE r.st \in {"Ok", "Err"} -> "returned"
               [] r.st = "Hang" -> "hung"
               [] r.st = "Panic" -> "panicked"
    /\ ret' = [st |-> r.st,
               contract |-> IF r.st = "Ok" THEN r.val ELSE EmptyContract,
               kind |-> K(""),
               tok |-> NoToken, margs |-> <<>>,
               err |-> r.err]

\* parse() on the parser as constructed.
Parse ==
    /\ pc = "new"
    /\ ParseEnds(parse(Parser))
    /\ UNCHANGED input

\* The end of a call of parse_arg_type() with result r.
ParseArgTypeEnds(r) ==
    /\ Left(r)
    /\ pc' = IF r.st = "Panic" THEN "arg_type_panicked" ELSE "arg_type_returned"
    /\ ret' = [st |-> r.st,
               contract |-> EmptyContract,
               kind |-> IF r.st = "Ok" THEN r.val ELSE K(""),
               tok |-> NoToken, margs |-> <<>>,
               err |-> r.err]

\* parse_arg_type() (a pub fn) on the parser as constructed: the current token
\* is the first token of the input.
ParseArgType ==
    /\ pc = "new"
    /\ ParseArgTypeEnds(parse_arg_type(Parser))
    /\ UNCHANGED input

InitTrivia == \E kinds \in TriviaInputs : InitOn(kinds)

Next == Parse \/ ParseArgType

Spec == Init /\ [][Next]_vars


\* The parser on the token vectors with Whitespace and Comment tokens.
SpecTrivia == InitTrivia /\ [][Next]_vars

\* The cursor primitives (pub fns), called one after the other on the parser
\* as constructed, in any order, until one panics.
CallablePc ==
    {"new", "match_kind_returned", "consume_returned", "peek_returned", "peek_behind_returned"}

\* The end of a call of the primitive `name` with result r, kind and tok being
\* what it hands back.
CallEnds(r, name, kind, tok) ==
    /\ Left(r)
    /\ pc' = IF r.st = "Panic" THEN name \o "_panicked" ELSE name \o "_returned"
    /\ ret' = [st |-> r.st, contract |-> EmptyContract, kind |-> kind, tok |-> tok,
               margs |-> <<>>, err |-> r.err]

MatchKindEnds(r) == CallEnds(r, "match_kind", IF r.st = "Ok" THEN r.val ELSE K(""), NoToken)

MatchKind(kind) ==
    /\ pc \in CallablePc
    /\ MatchKindEnds(match_kind(Parser, kind))
    /\ UNCHANGED input

ConsumeEnds(r) == CallEnds(r, "consume", K(""), NoToken)

Consume ==
    /\ pc \in CallablePc
    /\ ConsumeEnds(consume(Parser))
    /\ UNCHANGED input

PeekEnds(r) == CallEnds(r, "peek", K(""), IF r.st = "Ok" THEN r.val ELSE NoToken)

Peek ==
    /\ pc \in CallablePc
    /\ PeekEnds(peek(Parser))
    /\ UNCHANGED input

PeekBehind ==
    /\ pc \in CallablePc
    /\ CallEnds(Ok(Parser, <<>>), "peek_behind", K(""), peek_behind(Parser))
    /\ UNCHANGED input

InitCursor == \E kinds \in CursorInputs : InitOn(kinds)

NextCursor == (\E kind \in MatchKinds : MatchKind(kind)) \/ Consume \/ Peek \/ PeekBehind

SpecCursor == InitCursor /\ [][NextCursor]_vars

\* The end of a call of parse_macro_call_args() with result r.
ParseMacroCallArgsEnds(r) ==
    /\ Left(r)
    /\ pc' = IF r.st = "Panic" THEN "macro_call_args_panicked" ELSE "macro_call_args_returned"
    /\ ret' = [st |-> r.st, contract |-> EmptyContract, kind |-> K(""), tok |-> NoToken,
               margs |-> IF r.st = "Ok" THEN r.val ELSE <<>>, err |-> r.err]

\* parse_macro_call_args() (a pub fn) on the parser as constructed.
ParseMacroCallArgs ==
    /\ pc = "new"
    /\ ParseMacroCallArgsEnds(parse_macro_call_args(Parser))
    /\ UNCHANGED input

\* The parser on macro bodies and on the arguments of macro invocations.
InitBody == \E kinds \in BodyInputs \cup MacroArgInputs : InitOn(kinds)

NextBody == Parse \/ ParseMacroCallArgs

SpecBody == InitBody /\ [][NextBody]_vars

\* The end of a second call of parse() with result r.
ParseAgainEnds(r) ==
    /\ Left(r)
    /\ pc' = CASE r.st \in {"Ok", "Err"} -> "returned_again"
               [] r.st = "Hang" -> "hung_again"
               [] r.st = "Panic" -> "panicked_again"
    /\ ret' = [st |-> r.st,
               contract |-> IF r.st = "Ok" THEN r.val ELSE EmptyContract,
               kind |-> K(""),
               tok |-> NoToken, margs |-> <<>>,
               err |-> r.err]

\* parse() on the parser as a first call of parse() that returned left it.
ParseAgain ==
    /\ pc = "returned"
    /\ ParseAgainEnds(parse(Parser))
    /\ UNCHANGED input

\* Two calls of parse() on one parser.
InitReuse == \E kinds \in ReuseInputs : InitOn(kinds)

NextReuse == Parse \/ ParseAgain

SpecReuse == InitReuse /\ [][NextReuse]_vars
----------------------------------------------------------------------------
(* Properties *)

\* The kinds of the tokens handed to Parser::new.
InputKinds == [i \in 1..Len(input) |-> input[i].kind]

KindAt(i) == IF i \in 1..Len(input) THEN input[i].kind ELSE K("")

ParseCalled == pc \in {"returned", "hung", "panicked"}
ReturnedOk == pc = "returned" /\ ret.st = "Ok"
ReturnedErr(kind) == pc = "returned" /\ ret.st = "Err" /\ ret.err.kind = kind

\* The bounds on the size of a primitive type, as the specification states them.
ValidPrimitive(kind) ==
    CASE kind.prim \in {"Uint", "Int"} ->
            8 <= kind.num /\ kind.num <= 256 /\ kind.num % 8 = 0
      [] kind.prim = "Bytes" -> 1 <= kind.num /\ kind.num <= 32
      [] OTHER -> TRUE

InvalidSizeError(kind) ==
    CASE kind.prim = "Uint" -> "InvalidUint256"
      [] kind.prim = "Int" -> "InvalidInt"
      [] kind.prim = "Bytes" -> "InvalidBytes"
      [] OTHER -> ""

\* `#define function NAME ( T`: T is the first token of a typed argument list.
FirstInputOfFunction ==
    /\ KindAt(1).tag = "Define" /\ KindAt(2).tag = "Function"
    /\ KindAt(3).tag = "Ident" /\ KindAt(4).tag = "OpenParen"

\* parse_arg_type() called with the type token T as the current token.
TypeTokenAccepted ==
    /\ ret.st = "Ok" /\ ret.kind = KindAt(1)
    /\ cursor = 1 /\ current_token = input[2]

TypeTokenRejected ==
    /\ ret.st = "Err"
    /\ ret.err = ParserError(InvalidSizeError(KindAt(1)), Usize(KindAt(1).num), <<1>>)
    /\ cursor = 0 /\ current_token = input[1]

\* C1: parse() terminates on every token sequence that ends in Eof: it returns
\* a Contract or a ParserError; it never loops forever and never panics.
C1_ParseTerminates ==
    ParseCalled => (pc = "returned" /\ ret.st \in {"Ok", "Err"})

\* C2: an ArrayType token in a typed argument list is validated on its inner
\* primitive: parse_arg_type consumes and returns the array token when the
\* primitive is valid, and fails with InvalidUint256(n) / InvalidInt(n) /
\* InvalidBytes(n), without consuming, when it is not; parse() of a function
\* whose first input is such an array fails with that error.
C2_ArrayInnerValidated ==
    /\ (pc = "arg_type_returned" /\ KindAt(1).tag = "ArrayType") =>
           IF ValidPrimitive(KindAt(1)) THEN TypeTokenAccepted ELSE TypeTokenRejected
    /\ (ParseCalled /\ FirstInputOfFunction /\ KindAt(5).tag = "ArrayType"
            /\ ~ValidPrimitive(KindAt(5))) =>
           /\ ReturnedErr(InvalidSizeError(KindAt(5)))
           /\ ret.err.tok = Usize(KindAt(5).num)

\* C3: a PrimitiveType token in a typed argument list is accepted (consumed,
\* the cursor advanced by one) if and only if it is Uint(n) or Int(n) with
\* 8 <= n <= 256 and n % 8 = 0, Bytes(n) with 1 <= n <= 32, or an unsized
\* primitive; otherwise the parse fails with InvalidUint256(n), InvalidInt(n)
\* or InvalidBytes(n) and the token is not consumed.
C3_PrimitiveAcceptedIffValid ==
    /\ (pc = "arg_type_returned" /\ KindAt(1).tag = "PrimitiveType") =>
           IF ValidPrimitive(KindAt(1)) THEN TypeTokenAccepted ELSE TypeTokenRejected
    /\ (ParseCalled /\ FirstInputOfFunction /\ KindAt(5).tag = "PrimitiveType") =>
           IF ValidPrimitive(KindAt(5))
           THEN cursor >= 5
                /\ ~(ret.st = "Err" /\ ret.err.spans = <<5>>
                       /\ ret.err.kind \in {"InvalidUint256", "InvalidInt", "InvalidBytes"})
           ELSE /\ ReturnedErr(InvalidSizeError(KindAt(5)))
                /\ ret.err.tok = Usize(KindAt(5).num)
                /\ ret.err.spans = <<5>>
                /\ cursor = 4 /\ current_token = input[5]

\* `function f(uint7)` has failed with InvalidUint256(7).
C3_Uint7Rejected ==
    /\ FirstInputOfFunction /\ KindAt(5) = PrimitiveType("Uint", 7)
    /\ ReturnedErr("InvalidUint256") /\ ret.err.tok = Usize(7) /\ cursor = 4

\* C10: in a function declaration, when the token after the `function` keyword
\* is not an Ident, parse() fails with the error kind InvalidName.
C10_FunctionNameInvalidName ==
    (ParseCalled /\ KindAt(1).tag = "Define" /\ KindAt(2).tag = "Function"
        /\ KindAt(3).tag # "Ident") => ReturnedErr("InvalidName")

\* The strings separated by commas.
RECURSIVE CommaSeparated(_)
CommaSeparated(strings) ==
    IF strings = <<>> THEN ""
    ELSE IF Tail(strings) = <<>> THEN Head(strings)
    ELSE Head(strings) \o "," \o CommaSeparated(Tail(strings))

ArgTypes(args) == [i \in 1..Len(args) |-> args[i].arg_type.v]

\* S of the selector law: name(t1,t2,...) over the inputs' arg_type strings.
SelectorString(f) == f.name \o "(" \o CommaSeparated(ArgTypes(f.inputs)) \o ")"

SameSelectorString(f, g) == f.name = g.name /\ ArgTypes(f.inputs) = ArgTypes(g.inputs)

FunctionAt(i) == ret.contract.functions[i]
FunctionCount == Len(ret.contract.functions)

\* C4: the signature of every Function of a returned Contract is
\* first4(Keccak256(S)), S = name(t1,...,tn) over the arg_type strings of the
\* inputs in source order, "name()" without inputs; two functions with the same
\* name and input types have the same signature, whatever the names of their
\* inputs, their outputs and their mutability.
C4_SelectorLaw ==
    ReturnedOk =>
        /\ \A i \in 1..FunctionCount :
               /\ FunctionAt(i).signature = Keccak256First4(SelectorString(FunctionAt(i)))
               /\ FunctionAt(i).inputs = <<>> =>
                      FunctionAt(i).signature = Keccak256First4(FunctionAt(i).name \o "()")
        /\ \A i, j \in 1..FunctionCount :
               SameSelectorString(FunctionAt(i), FunctionAt(j)) =>
                   FunctionAt(i).signature = FunctionAt(j).signature

\* Two functions f(uint256 a) view and f(uint256 b) pure returns (bool), and a
\* function of two inputs, have been parsed.
C4_SameSelectorDifferentNames ==
    /\ ReturnedOk
    /\ \E i, j \in 1..FunctionCount :
           /\ i # j
           /\ SameSelectorString(FunctionAt(i), FunctionAt(j))
           /\ FunctionAt(i).inputs # FunctionAt(j).inputs
           /\ FunctionAt(i).outputs # FunctionAt(j).outputs
           /\ FunctionAt(i).fn_type # FunctionAt(j).fn_type
           /\ FunctionAt(i).signature = Keccak256First4("f(uint256)")

\* A function of two inputs has been parsed.
C4_TwoInputs ==
    /\ ReturnedOk
    /\ \E i \in 1..FunctionCount :
           /\ Len(FunctionAt(i).inputs) = 2
           /\ FunctionAt(i).signature = Keccak256First4("f(uint256,uint256)")

\* The first position from i on of a token of the given tag (0: none).
RECURSIVE FirstAt(_, _)
FirstAt(tag, i) ==
    IF i > Len(input) THEN 0
    ELSE IF KindAt(i).tag = tag THEN i ELSE FirstAt(tag, i + 1)

\* The kinds of the tokens between `{` and `}` of the declaration whose
\* `#define` is at position at.
BodyKinds(at) ==
    SubSeq(InputKinds, FirstAt("OpenBrace", at) + 1, FirstAt("CloseBrace", at) - 1)

RECURSIVE SumOfLengths(_)
SumOfLengths(kinds) ==
    IF kinds = <<>> THEN 0 ELSE Len(Head(kinds).str) + SumOfLengths(Tail(kinds))

ExpectedTableSize(kind, body) ==
    CASE kind = "JumpTable" -> Len(body) * 32
      [] kind = "JumpTablePacked" -> Len(body) * 2
      [] kind = "CodeTable" -> SumOfLengths(body) \div 2

TableAt(i) == ret.contract.tables[i]
TableCount == Len(ret.contract.tables)

\* The statements of the table are the LabelCalls of the identifiers of its body.
TableBodyParsed(t) ==
    /\ Len(t.statements) = Len(BodyKinds(t.span[1]))
    /\ \A k \in 1..Len(t.statements) :
           /\ t.statements[k].ty = "LabelCall"
           /\ t.statements[k].str = BodyKinds(t.span[1])[k].str

\* C5: the size of every TableDefinition of a returned Contract is
\* len(body) * 32 for a JumpTable, len(body) * 2 for a JumpTablePacked and
\* floor(sum of the identifier lengths of the LabelCalls of body / 2) for a
\* CodeTable, body being the LabelCalls parsed between `{` and `}`.
C5_TableSizeLaw ==
    ReturnedOk =>
        \A i \in 1..TableCount :
            /\ TableBodyParsed(TableAt(i))
            /\ TableAt(i).kind = KindAt(TableAt(i).span[1] + 1).tag
            /\ TableAt(i).size
                   = ExpectedTableSize(TableAt(i).kind, BodyKinds(TableAt(i).span[1]))

\* A packed jump table of three entries has size 6.
C5_PackedThreeEntries ==
    /\ ReturnedOk
    /\ \E i \in 1..TableCount :
           /\ TableAt(i).kind = "JumpTablePacked"
           /\ Len(TableAt(i).statements) = 3
           /\ TableAt(i).size = 6

\* A code table whose identifiers count an odd number of characters.
C5_CodeTableOddLength ==
    /\ ReturnedOk
    /\ \E i \in 1..TableCount :
           /\ TableAt(i).kind = "CodeTable"
           /\ SumOfLengths(BodyKinds(TableAt(i).span[1])) % 2 = 1
           /\ TableAt(i).size * 2 + 1 = SumOfLengths(BodyKinds(TableAt(i).span[1]))

\* The declarations of the token stream whose keyword is in kws, in the order
\* of the stream: the name and the position of `#define`.
RECURSIVE DeclaredFrom(_, _)
DeclaredFrom(kws, i) ==
    IF i > Len(input) THEN <<>>
    ELSE IF KindAt(i).tag = "Define" /\ KindAt(i + 1).tag \in kws
         THEN <<[name |-> KindAt(i + 2).str, at |-> i]>> \o DeclaredFrom(kws, i + 1)
         ELSE DeclaredFrom(kws, i + 1)

Declared(kws) == DeclaredFrom(kws, 1)

\* The paths of the `#include`s of the token stream, in its order.
RECURSIVE IncludedFrom(_)
IncludedFrom(i) ==
    IF i > Len(input) THEN <<>>
    ELSE IF KindAt(i).tag = "Include"
         THEN <<KindAt(i + 1).str>> \o IncludedFrom(i + 1)
         ELSE IncludedFrom(i + 1)

\* The entries of a list of the Contract: the name and the first span.
Listed(defs) == [i \in 1..Len(defs) |-> [name |-> defs[i].name, at |-> defs[i].span[1]]]

\* C8: each of functions, events, constants, macros, tables and imports of a
\* returned Contract lists its declarations in the order of the token stream,
\* one entry for each declaration of the category, none dropped or duplicated.
C8_DeclarationOrder ==
    ReturnedOk =>
        /\ Listed(ret.contract.functions) = Declared({"Function"})
        /\ Listed(ret.contract.events) = Declared({"Event"})
        /\ Listed(ret.contract.constants) = Declared({"Constant"})
        /\ Listed(ret.contract.macros) = Declared({"Macro"})
        /\ Listed(ret.contract.tables)
               = Declared({"JumpTable", "JumpTablePacked", "CodeTable"})
        /\ ret.contract.imports = IncludedFrom(1)

\* Two imports, then a declaration: a.huff before b.huff.
C8_TwoImports ==
    /\ ReturnedOk
    /\ ret.contract.imports = <<"a.huff", "b.huff">>
    /\ Len(ret.contract.functions) = 1

\* Two functions with an event declared between them.
C8_EventBetweenFunctions ==
    /\ ReturnedOk
    /\ Len(ret.contract.functions) = 2 /\ Len(ret.contract.events) = 1
    /\ ret.contract.functions[1] # ret.contract.functions[2]
    /\ ret.contract.functions[1].span[1] < ret.contract.events[1].span[1]
    /\ ret.contract.events[1].span[1] < ret.contract.functions[2].span[1]

\* The statements of a body with those of its labels.
RECURSIVE WithInner(_)
WithInner(statements) ==
    IF statements = <<>> THEN <<>>
    ELSE <<Head(statements)>> \o WithInner(Head(statements).inner)
             \o WithInner(Tail(statements))

NoneIndexed(args) == \A i \in 1..Len(args) : ~args[i].indexed

BuiltinArgsNotIndexed(statements) ==
    \A i \in 1..Len(statements) :
        statements[i].ty = "BuiltinFunctionCall" => NoneIndexed(statements[i].args)

\* The `indexed` keyword directly follows the type of the parameter.
IndexedFollowsType(arg) == KindAt(arg.span[1] + 1).tag = "Indexed"

\* C9: in a returned Contract Argument.indexed is false for every input and
\* output of a function, every parameter of a macro and every argument of a
\* builtin function call; for an event parameter it is true exactly when the
\* `indexed` keyword directly follows the type of the parameter.
C9_IndexedScoping ==
    ReturnedOk =>
        /\ \A i \in 1..FunctionCount :
               NoneIndexed(FunctionAt(i).inputs) /\ NoneIndexed(FunctionAt(i).outputs)
        /\ \A i \in 1..Len(ret.contract.macros) :
               /\ NoneIndexed(ret.contract.macros[i].parameters)
               /\ BuiltinArgsNotIndexed(WithInner(ret.contract.macros[i].statements))
        /\ \A i \in 1..Len(ret.contract.events) :
               \A k \in 1..Len(ret.contract.events[i].parameters) :
                   ret.contract.events[i].parameters[k].indexed
                       <=> IndexedFollowsType(ret.contract.events[i].parameters[k])

\* An event of two parameters, the second indexed and the first not.
C9_EventSecondIndexed ==
    /\ ReturnedOk
    /\ \E i \in 1..Len(ret.contract.events) :
           /\ Len(ret.contract.events[i].parameters) = 2
           /\ ~ret.contract.events[i].parameters[1].indexed
           /\ ret.contract.events[i].parameters[2].indexed

\* A function with an input and an event with an indexed parameter.
C9_FunctionAndIndexedEvent ==
    /\ ReturnedOk
    /\ \E i \in 1..FunctionCount : FunctionAt(i).inputs # <<>>
    /\ \E i \in 1..Len(ret.contract.events) :
           \E k \in 1..Len(ret.contract.events[i].parameters) :
               ret.contract.events[i].parameters[k].indexed

\* A span list that is not empty, holds spans of tokens of the input only, and
\* is in the order of the source.
SpanCovers(sp) ==
    /\ sp # <<>>
    /\ \A i \in 1..Len(sp) : sp[i] \in 1..Len(input)
    /\ \A i \in 1..(Len(sp) - 1) : sp[i] < sp[i + 1]

ArgumentsCovered(args) == \A i \in 1..Len(args) : SpanCovers(args[i].span)

StatementCovered(statement) ==
    /\ SpanCovers(statement.span)
    /\ statement.ty \in {"MacroInvocation", "Label", "BuiltinFunctionCall"} =>
           SpanCovers(statement.node_span)
    /\ ArgumentsCovered(statement.args)

StatementsCovered(statements) ==
    \A i \in 1..Len(WithInner(statements)) : StatementCovered(WithInner(statements)[i])

FunctionsCovered ==
    \A i \in 1..FunctionCount :
        /\ SpanCovers(FunctionAt(i).span)
        /\ ArgumentsCovered(FunctionAt(i).inputs)
        /\ ArgumentsCovered(FunctionAt(i).outputs)

EventsCovered ==
    \A i \in 1..Len(ret.contract.events) :
        /\ SpanCovers(ret.contract.events[i].span)
        /\ ArgumentsCovered(ret.contract.events[i].parameters)

ConstantsCovered ==
    \A i \in 1..Len(ret.contract.constants) : SpanCovers(ret.contract.constants[i].span)

MacrosCovered ==
    \A i \in 1..Len(ret.contract.macros) :
        /\ SpanCovers(ret.contract.macros[i].span)
        /\ ArgumentsCovered(ret.contract.macros[i].parameters)
        /\ StatementsCovered(ret.contract.macros[i].statements)

TablesCovered ==
    \A i \in 1..TableCount :
        /\ SpanCovers(TableAt(i).span)
        /\ StatementsCovered(TableAt(i).statements)

\* C6: every node of a returned Contract (Function, Event, ConstantDefinition,
\* MacroDefinition, TableDefinition, Statement, Label, MacroInvocation,
\* BuiltinFunctionCall, Argument) carries a span list that is not empty, holds
\* spans of tokens of the input only, and is strictly increasing in position.
C6_SpanCoverage ==
    ReturnedOk =>
        /\ FunctionsCovered
        /\ EventsCovered
        /\ ConstantsCovered
        /\ MacrosCovered
        /\ TablesCovered

\* The kinds of the input that are neither Whitespace nor Comment.
IsCode(kind) == kind.tag \notin {"Whitespace", "Comment"}
CodeKinds == SelectSeq(InputKinds, IsCode)

WithoutArgumentSpans(args) == [i \in 1..Len(args) |-> [args[i] EXCEPT !.span = <<>>]]

RECURSIVE WithoutStatementSpans(_)
WithoutStatementSpans(statements) ==
    [i \in 1..Len(statements) |->
        [statements[i] EXCEPT !.span = <<>>, !.node_span = <<>>,
                              !.args = WithoutArgumentSpans(@),
                              !.inner = WithoutStatementSpans(@)]]

WithoutFunctionSpans(functions) ==
    [i \in 1..Len(functions) |->
        [functions[i] EXCEPT !.span = <<>>, !.inputs = WithoutArgumentSpans(@),
                             !.outputs = WithoutArgumentSpans(@)]]

WithoutEventSpans(events) ==
    [i \in 1..Len(events) |->
        [events[i] EXCEPT !.span = <<>>, !.parameters = WithoutArgumentSpans(@)]]

WithoutConstantSpans(constants) ==
    [i \in 1..Len(constants) |-> [constants[i] EXCEPT !.span = <<>>]]

WithoutMacroSpans(macros) ==
    [i \in 1..Len(macros) |->
        [macros[i] EXCEPT !.span = <<>>, !.parameters = WithoutArgumentSpans(@),
                          !.statements = WithoutStatementSpans(@)]]

WithoutTableSpans(tables) ==
    [i \in 1..Len(tables) |->
        [tables[i] EXCEPT !.span = <<>>, !.statements = WithoutStatementSpans(@)]]

\* The structure of a Contract: its six lists, the spans left out.
Structure(contract) ==
    Contract(contract.imports,
             WithoutFunctionSpans(contract.functions),
             WithoutEventSpans(contract.events),
             WithoutConstantSpans(contract.constants),
             WithoutMacroSpans(contract.macros),
             WithoutTableSpans(contract.tables))

\* The outcome of a call of parse(): how it ended, the structure of the
\* Contract, the kind of the error.
Outcome(st, contract, err) ==
    [st |-> st, contract |-> Structure(contract), kind |-> err.kind, tok |-> err.tok]

OutcomeOf(r) == Outcome(r.st, IF r.st = "Ok" THEN r.val ELSE EmptyContract, r.err)

\* C7: two token sequences that are equal once their Whitespace and Comment
\* tokens are removed have the same outcome of parse(): Contracts of the same
\* structure (spans ignored) or the same error kind.  Stated of a sequence and
\* the sequence without its Whitespace and Comment tokens.
C7_TriviaIndependence ==
    ParseCalled =>
        Outcome(ret.st, ret.contract, ret.err) = OutcomeOf(parse(new(Lex(CodeKinds))))

\* A Contract with a macro has been returned for an input with a Comment and a
\* Whitespace token in it.
C7_ParsedThroughTrivia ==
    /\ ReturnedOk
    /\ \E i, j \in 1..Len(input) :
           KindAt(i).tag = "Comment" /\ KindAt(j).tag = "Whitespace"
    /\ Len(ret.contract.macros) = 1
    /\ Len(ret.contract.macros[1].statements) = 2

(* C11: the end of the stream inside an open body *)

\* The last `#define` of the input, the first `{` after it, and the tokens
\* before the closing Eof.
LastAt(tag) ==
    IF \E i \in 1..Len(input) : KindAt(i).tag = tag
    THEN CHOOSE i \in 1..Len(input) :
             KindAt(i).tag = tag /\ \A j \in (i + 1)..Len(input) : KindAt(j).tag # tag
    ELSE 0

BodyOpensAt ==
    IF \E b \in (LastAt("Define") + 1)..Len(input) : KindAt(b).tag = "OpenBrace"
    THEN CHOOSE b \in (LastAt("Define") + 1)..Len(input) :
             KindAt(b).tag = "OpenBrace"
             /\ \A j \in (LastAt("Define") + 1)..(b - 1) : KindAt(j).tag # "OpenBrace"
    ELSE 0

BodyKeyword == KindAt(LastAt("Define") + 1).tag

\* parse() has returned with the cursor on the closing Eof, in a macro or
\* table declaration whose `{` has no `}`.
BodyOpenAtEof ==
    /\ pc = "returned"
    /\ LastAt("Define") > 0
    /\ BodyKeyword \in {"Macro", "JumpTable", "JumpTablePacked", "CodeTable"}
    /\ BodyOpensAt > 0
    /\ \A j \in BodyOpensAt..Len(input) : KindAt(j).tag # "CloseBrace"
    /\ cursor + 1 = Len(input)
    /\ cursor >= BodyOpensAt
    /\ current_token.kind.tag = "Eof"

InOpenParens ==
    \E o \in BodyOpensAt..Len(input) :
        KindAt(o).tag = "OpenParen"
        /\ \A j \in o..Len(input) : KindAt(j).tag # "CloseParen"

InOpenLabel == \E c \in BodyOpensAt..Len(input) : KindAt(c).tag = "Colon"

\* The tokens before the Eof are whole statements: the Eof stands where the
\* next statement of the body would start.
EofWhereStatementStarts ==
    /\ ~InOpenParens
    /\ KindAt(Len(input) - 1).tag \notin {"OpenBracket", "LeftAngle", "Label", "BuiltinFunction"}
    /\ ~(KindAt(Len(input) - 1).tag = "Ident"
          /\ KindAt(Len(input) - 2).tag \in {"OpenBracket", "LeftAngle"})

OpenBodyError ==
    IF BodyKeyword # "Macro" THEN "InvalidTableBodyToken"
    ELSE IF InOpenLabel THEN "InvalidTokenInLabelDefinition"
    ELSE "InvalidTokenInMacroBody"

\* C11 (as stated): when a macro body, label body or table body is still open
\* at the point where the cursor reaches Eof, parse() fails with the error
\* kind UnexpectedType.
C11_OpenBodyUnexpectedType == BodyOpenAtEof => ReturnedErr("UnexpectedType")

\* C11 (amended): when the Eof stands where a statement of an open macro body,
\* label body or table body would start, parse() fails with
\* InvalidTokenInMacroBody(Eof), InvalidTokenInLabelDefinition(Eof) or
\* InvalidTableBodyToken(Eof), on the span of the Eof; UnexpectedType is the
\* error only when the Eof stands inside a statement, where a matcher meets it.
C11_OpenBodyInvalidToken ==
    BodyOpenAtEof =>
        /\ ret.st = "Err"
        /\ EofWhereStatementStarts =>
               /\ ret.err.kind = OpenBodyError
               /\ ret.err.tok = Eof
               /\ ret.err.spans = <<Len(input)>>
        /\ ret.err.kind = "UnexpectedType" => ~EofWhereStatementStarts

C11_EofInLabelBody ==
    /\ BodyOpenAtEof
    /\ EofWhereStatementStarts
    /\ InOpenLabel
    /\ ReturnedErr("InvalidTokenInLabelDefinition")

(* C12: the token after `#define` *)

ProductionKeywords ==
    {"Function", "Event", "Constant", "Macro", "JumpTable", "JumpTablePacked", "CodeTable"}

\* The list of the Contract that the keyword kw selects.
TargetList(contract, kw) ==
    CASE kw = "Function" -> contract.functions
      [] kw = "Event" -> contract.events
      [] kw = "Constant" -> contract.constants
      [] kw = "Macro" -> contract.macros
      [] OTHER -> contract.tables

StartsAt(defs, d) == \E i \in 1..Len(defs) : defs[i].span[1] = d

ListsWithEntryAt(contract, d) ==
    {kw \in {"Function", "Event", "Constant", "Macro", "CodeTable"} :
        StartsAt(TargetList(contract, kw), d)}

\* The first `#define` that a token other than the seven keywords follows.
RECURSIVE StrayDefineFrom(_)
StrayDefineFrom(i) ==
    IF i > Len(input) THEN 0
    ELSE IF KindAt(i).tag = "Define" /\ KindAt(i + 1).tag \notin ProductionKeywords
         THEN i ELSE StrayDefineFrom(i + 1)

StrayDefine == StrayDefineFrom(1)

\* C12: after `#define` the next token selects exactly one production and one
\* list of the Contract (function, event, constant, macro; jumptable,
\* jumptable__packed and table select tables); with any other token after
\* `#define`, Eof included, parse() fails with InvalidDefinition and nothing
\* after the `#define` is consumed.
C12_DefineDispatch ==
    /\ ReturnedOk =>
           \A d \in 1..Len(input) :
               KindAt(d).tag = "Define" =>
                   /\ KindAt(d + 1).tag \in ProductionKeywords
                   /\ ListsWithEntryAt(ret.contract, d)
                          = {IF KindAt(d + 1).tag \in {"JumpTable", "JumpTablePacked"}
                             THEN "CodeTable" ELSE KindAt(d + 1).tag}
    /\ (ParseCalled /\ StrayDefine > 0 /\ cursor >= StrayDefine) =>
           /\ ReturnedErr("InvalidDefinition")
           /\ cursor = StrayDefine
           /\ current_token = input[StrayDefine + 1]
           /\ ret.err.spans = <<StrayDefine>>
    /\ ReturnedErr("InvalidDefinition") =>
           /\ StrayDefine > 0
           /\ cursor = StrayDefine

\* `#define` with Eof after it.
C12_DefineThenEof ==
    /\ ReturnedErr("InvalidDefinition")
    /\ StrayDefine = 1
    /\ KindAt(StrayDefine + 1) = Eof
    /\ cursor = StrayDefine

\* `#define` with a token after it that is no keyword at all.
C12_DefineThenOpcode ==
    /\ ReturnedErr("InvalidDefinition")
    /\ KindAt(StrayDefine + 1).tag = "Opcode"
    /\ current_token.kind.tag = "Opcode"

(* C13: the include phase *)

FirstDefine == FirstAt("Define", 1)
FirstEof == FirstAt("Eof", 1)

\* The paths after the `#include`s before position d, in the order of the stream.
RECURSIVE IncludedBefore(_, _)
IncludedBefore(d, i) ==
    IF i >= d THEN <<>>
    ELSE IF KindAt(i).tag = "Include"
         THEN <<KindAt(i + 1).str>> \o IncludedBefore(d, i + 1)
         ELSE IncludedBefore(d, i + 1)

IncludePhaseEnd == IF FirstDefine > 0 /\ FirstDefine < FirstEof THEN FirstDefine ELSE FirstEof

\* `#define constant NAME = VALUE` at positions d .. d + 4.
ConstantDeclaredAt(d) ==
    /\ KindAt(d).tag = "Define"
    /\ KindAt(d + 1).tag = "Constant"
    /\ KindAt(d + 2).tag = "Ident"
    /\ KindAt(d + 3).tag = "Assign"
    /\ KindAt(d + 4).tag \in {"FreeStoragePointer", "Literal"}

\* C13: imports are accepted only in the include phase, which ends at the
\* first `#define` or Eof: the imports of a returned Contract are the
\* `#include`s before the first `#define`, and no `#include` follows it; an
\* `#include`, or any token other than `#define`, at top level after the first
\* declaration makes parse() fail with UnexpectedType(`#define`).
C13_IncludePhase ==
    /\ ReturnedOk =>
           /\ ret.contract.imports = IncludedBefore(IncludePhaseEnd, 1)
           /\ \A i \in 1..FirstEof : KindAt(i).tag = "Include" => i < IncludePhaseEnd
    /\ (/\ ParseCalled
        /\ FirstDefine > 0
        /\ ConstantDeclaredAt(FirstDefine)
        /\ cursor >= FirstDefine + 4
        /\ KindAt(FirstDefine + 5).tag \notin {"Define", "Eof"}) =>
           /\ ReturnedErr("UnexpectedType")
           /\ ret.err.tok = K("Define")
           /\ ret.err.spans = <<>>
           /\ cursor = FirstDefine + 4
           /\ current_token = input[FirstDefine + 5]
    /\ (ReturnedErr("UnexpectedType") /\ ret.err.tok = K("Define")) =>
           /\ FirstDefine > 0
           /\ cursor > FirstDefine
           /\ current_token.kind.tag \notin {"Define", "Eof"}

\* `#include` after an `#include` and a constant.
C13_IncludeAfterDeclaration ==
    /\ ReturnedErr("UnexpectedType")
    /\ ret.err.tok = K("Define")
    /\ KindAt(1).tag = "Include"
    /\ ConstantDeclaredAt(FirstDefine)
    /\ current_token.kind.tag = "Include"
    /\ cursor = FirstDefine + 4

(* C14, C15: the cursor primitives *)

CursorFrame == UNCHANGED <<tokens, cursor, current_token, spans>>

\* The token at the 0-based index i of the token vector, if there is one.
TokenAtIndex(i) == IF i >= 0 /\ i < Len(tokens) THEN SomeToken(tokens[i + 1]) ELSE NoToken

MatchKindEffect(kind) ==
    IF discriminant(kind) = discriminant(current_token.kind)
    THEN /\ ret'.st = "Ok"
         /\ ret'.kind = current_token.kind
         /\ spans' = Append(spans, current_token.span)
         /\ cursor' = cursor + 1
         /\ tokens' = tokens
    ELSE /\ ret'.st = "Err"
         /\ ret'.err = ParserError("UnexpectedType", kind, spans)
         /\ CursorFrame

\* C14: match_kind(k) compares only the variants of k and of the current
\* token.  On a match it returns the kind of the current token, appends its
\* span (exactly one) to spans and advances cursor by exactly 1; on a mismatch
\* it returns UnexpectedType(k) with a copy of the accumulated spans and
\* leaves cursor, current_token and spans unchanged.
C14_MatchKindFrame ==
    [][\A kind \in MatchKinds : MatchKind(kind) => MatchKindEffect(kind)]_vars

\* The same of every call but a match on the last token of the vector.
C14_MatchKindFrameBeforeLast ==
    [][\A kind \in MatchKinds :
           (MatchKind(kind) /\ ~(discriminant(kind) = discriminant(current_token.kind)
                                  /\ cursor + 1 = Len(tokens)))
               => MatchKindEffect(kind)]_vars

PeekEffect ==
    /\ ret'.st = "Ok"
    /\ ret'.tok = TokenAtIndex(cursor + 1)
    /\ CursorFrame

PeekBehindEffect ==
    /\ ret'.st = "Ok"
    /\ ret'.tok = TokenAtIndex(cursor - 1)
    /\ CursorFrame

\* C15: at every cursor position peek() returns tokens[cursor + 1] when that
\* index is valid and no token, without failing, otherwise; peek_behind()
\* returns tokens[cursor - 1] when that index is valid and no token otherwise;
\* neither changes cursor, current_token or spans.
C15_PeekTotal ==
    [][(Peek => PeekEffect) /\ (PeekBehind => PeekBehindEffect)]_vars

\* The same of peek_behind() alone, and of peek() before the last token.
C15_PeekBeforeLast ==
    [][/\ (Peek /\ cursor + 1 < Len(tokens)) => PeekEffect
       /\ PeekBehind => PeekBehindEffect]_vars

(* C16: the statements of a macro body *)

\* What a statement shows of the construct it was parsed from: its variant,
\* its name or value, and the position of its first token.
Shown(ty, str, lit, at) == [ty |-> ty, str |-> str, lit |-> lit, at |-> at]

ShownOf(statements) ==
    [k \in 1..Len(statements) |->
        Shown(statements[k].ty, statements[k].str, statements[k].lit, statements[k].span[1])]

\* The position after the first `)` from position i on, and the position of
\* the first Label or `}`; past the end of the input if there is none.
AfterCloseParen(i) ==
    IF FirstAt("CloseParen", i) = 0 THEN Len(input) + 1 ELSE FirstAt("CloseParen", i) + 1

RECURSIVE NextLabelOrClose(_)
NextLabelOrClose(i) ==
    IF i > Len(input) THEN i
    ELSE IF KindAt(i).tag \in {"Label", "CloseBrace"} THEN i ELSE NextLabelOrClose(i + 1)

\* The constructs of a macro body from position i on, as the grammar of the
\* body reads them off the token stream, up to `}`; a token that starts no
\* construct ends the list as "NoStatement".
RECURSIVE BodyConstructs(_)
BodyConstructs(i) ==
    IF i > Len(input) \/ KindAt(i).tag = "CloseBrace" THEN <<>>
    ELSE CASE KindAt(i).tag = "Literal" ->
                  <<Shown("Literal", "", KindAt(i).num, i)>> \o BodyConstructs(i + 1)
           [] KindAt(i).tag = "Opcode" ->
                  <<Shown("Opcode", KindAt(i).str, 0, i)>> \o BodyConstructs(i + 1)
           [] KindAt(i).tag = "OpenBracket" ->
                  <<Shown("Constant", KindAt(i + 1).str, 0, i + 1)>> \o BodyConstructs(i + 3)
           [] KindAt(i).tag = "LeftAngle" ->
                  <<Shown("ArgCall", KindAt(i + 1).str, 0, i + 1)>> \o BodyConstructs(i + 3)
           [] KindAt(i).tag = "BuiltinFunction" ->
                  <<Shown("BuiltinFunctionCall", KindAt(i).str, 0, i)>>
                      \o BodyConstructs(AfterCloseParen(i))
           [] KindAt(i).tag = "Label" ->
                  <<Shown("Label", KindAt(i).str, 0, i)>>
                      \o BodyConstructs(NextLabelOrClose(i + 1))
           [] KindAt(i).tag = "Ident" /\ KindAt(i + 1).tag = "OpenParen" ->
                  <<Shown("MacroInvocation", KindAt(i).str, 0, i)>>
                      \o BodyConstructs(AfterCloseParen(i))
           [] KindAt(i).tag = "Ident" /\ KindAt(i + 1).tag # "OpenParen" ->
                  <<Shown("LabelCall", KindAt(i).str, 0, i)>> \o BodyConstructs(i + 1)
           [] OTHER -> <<Shown("NoStatement", "", 0, i)>>

\* `#define macro ...` first in the input, and the position after its `{`.
MacroFirst ==
    KindAt(1).tag = "Define" /\ KindAt(2).tag = "Macro" /\ FirstAt("OpenBrace", 1) > 0
MacroBodyStart == FirstAt("OpenBrace", 1) + 1

\* The position of the first token at statement level that starts no
\* construct, 0 if there is none.
StrayInBody ==
    IF BodyConstructs(MacroBodyStart) # <<>>
       /\ BodyConstructs(MacroBodyStart)[Len(BodyConstructs(MacroBodyStart))].ty = "NoStatement"
    THEN BodyConstructs(MacroBodyStart)[Len(BodyConstructs(MacroBodyStart))].at
    ELSE 0

C16_StrayComma ==
    /\ MacroFirst
    /\ ReturnedErr("InvalidTokenInMacroBody")
    /\ ret.err.tok = K("Comma")
    /\ StrayInBody > MacroBodyStart + 1

(* C17: the statements of a label *)

\* The constructs of a label body from position i on, up to the next Label or
\* `}`; a token that starts no construct of a label ends the list as
\* "NoStatement".
RECURSIVE LabelConstructs(_)
LabelConstructs(i) ==
    IF i > Len(input) \/ KindAt(i).tag \in {"Label", "CloseBrace"} THEN <<>>
    ELSE CASE KindAt(i).tag = "Literal" ->
                  <<Shown("Literal", "", KindAt(i).num, i)>> \o LabelConstructs(i + 1)
           [] KindAt(i).tag = "Opcode" ->
                  <<Shown("Opcode", KindAt(i).str, 0, i)>> \o LabelConstructs(i + 1)
           [] KindAt(i).tag = "OpenBracket" ->
                  <<Shown("Constant", KindAt(i + 1).str, 0, i + 1)>> \o LabelConstructs(i + 3)
           [] KindAt(i).tag = "LeftAngle" ->
                  <<Shown("ArgCall", KindAt(i + 1).str, 0, i + 1)>> \o LabelConstructs(i + 3)
           [] KindAt(i).tag = "Ident" /\ KindAt(i + 1).tag = "OpenParen" ->
                  <<Shown("MacroInvocation", KindAt(i).str, 0, i)>>
                      \o LabelConstructs(AfterCloseParen(i))
           [] KindAt(i).tag = "Ident" /\ KindAt(i + 1).tag # "OpenParen" ->
                  <<Shown("LabelCall", KindAt(i).str, 0, i)>> \o LabelConstructs(i + 1)
           [] OTHER -> <<Shown("NoStatement", "", 0, i)>>

\* The Label statement st holds the statements between its `:` and the next
\* Label or `}`, none of them a Label or a BuiltinFunctionCall.
LabelHoldsItsStatements(st) ==
    /\ KindAt(st.span[1]).tag = "Label"
    /\ KindAt(st.span[1] + 1).tag = "Colon"
    /\ ShownOf(st.inner) = LabelConstructs(st.span[1] + 2)
    /\ \A k \in 1..Len(st.inner) : st.inner[k].ty \notin {"Label", "BuiltinFunctionCall"}

\* The statement after a Label statement starts at the token that ended the
\* label; after the last one parse_body takes that token as its `}`.
LabelEndsWhereNextStarts(statements, k) ==
    IF k < Len(statements)
    THEN /\ statements[k + 1].ty = "Label"
         /\ statements[k + 1].span[1] = NextLabelOrClose(statements[k].span[1] + 2)
    ELSE /\ KindAt(NextLabelOrClose(statements[k].span[1] + 2)).tag = "CloseBrace"
         /\ cursor >= NextLabelOrClose(statements[k].span[1] + 2)

\* The first Label at statement level, 0 if there is none, and the first token
\* of its body that starts no construct of a label, 0 if there is none.
FirstLabel ==
    IF \E k \in 1..Len(BodyConstructs(MacroBodyStart)) :
           BodyConstructs(MacroBodyStart)[k].ty = "Label"
    THEN (CHOOSE c \in {BodyConstructs(MacroBodyStart)[k] :
                            k \in 1..Len(BodyConstructs(MacroBodyStart))} :
              c.ty = "Label"
              /\ \A k \in 1..Len(BodyConstructs(MacroBodyStart)) :
                     BodyConstructs(MacroBodyStart)[k].ty = "Label"
                         => BodyConstructs(MacroBodyStart)[k].at >= c.at).at
    ELSE 0

StrayInFirstLabel ==
    IF FirstLabel > 0 /\ KindAt(FirstLabel + 1).tag = "Colon"
       /\ LabelConstructs(FirstLabel + 2) # <<>>
       /\ LabelConstructs(FirstLabel + 2)[Len(LabelConstructs(FirstLabel + 2))].ty
              = "NoStatement"
    THEN LabelConstructs(FirstLabel + 2)[Len(LabelConstructs(FirstLabel + 2))].at
    ELSE 0

\* C17: a Label followed by `:` in a macro body yields a Label statement whose
\* inner holds exactly the statements from the `:` up to, not including, the
\* next Label or `}`, which parse_body then reads; inner holds no Label and no
\* BuiltinFunctionCall, a BuiltinFunction token inside a label failing with
\* InvalidTokenInLabelDefinition; every statement of the body after the first
\* Label is a Label.
C17_LabelStatements ==
    MacroFirst =>
        /\ ReturnedOk =>
               \A k \in 1..Len(ret.contract.macros[1].statements) :
                   ret.contract.macros[1].statements[k].ty = "Label" =>
                       /\ LabelHoldsItsStatements(ret.contract.macros[1].statements[k])
                       /\ LabelEndsWhereNextStarts(ret.contract.macros[1].statements, k)
        /\ (ParseCalled /\ StrayInFirstLabel > 0 /\ cursor >= StrayInFirstLabel - 1) =>
               /\ ReturnedErr("InvalidTokenInLabelDefinition")
               /\ ret.err.tok = KindAt(StrayInFirstLabel)
               /\ ret.err.spans = <<StrayInFirstLabel>>
               /\ cursor = StrayInFirstLabel - 1
        /\ ReturnedErr("InvalidTokenInLabelDefinition") =>
               /\ FirstLabel > 0
               /\ cursor > FirstLabel
               /\ ret.err.tok = current_token.kind
               /\ current_token.kind.tag
                      \notin {"Literal", "Opcode", "Ident", "OpenBracket", "LeftAngle",
                               "Label", "CloseBrace"}

\* A label with one statement, then a label with none.
C17_TwoLabels ==
    /\ MacroFirst
    /\ ReturnedOk
    /\ Len(ret.contract.macros[1].statements) = 2
    /\ ret.contract.macros[1].statements[1].ty = "Label"
    /\ Len(ret.contract.macros[1].statements[1].inner) = 1
    /\ ret.contract.macros[1].statements[2].ty = "Label"
    /\ ret.contract.macros[1].statements[2].inner = <<>>

\* A builtin function call inside a label.
C17_BuiltinInLabel ==
    /\ MacroFirst
    /\ ReturnedErr("InvalidTokenInLabelDefinition")
    /\ ret.err.tok.tag = "BuiltinFunction"
    /\ StrayInFirstLabel = cursor + 1

(* C18: the arguments of a macro invocation *)

Scanned(st, args, at) == [st |-> st, args |-> args, at |-> at]

\* The position after an argument that ends before position i: a comma right
\* after an argument belongs to it.
AfterComma(i) == IF KindAt(i).tag = "Comma" THEN i + 1 ELSE i

\* The arguments from position i on, as the claim reads them off the token
\* stream: st = "Ok" with the arguments and the position of the `)`,
\* "InvalidMacroArgs" with the position of the token that is no argument, or
\* "Unfinished" with the position of a `<` that `Ident` `>` does not follow.
RECURSIVE MacroArgsFrom(_, _)
MacroArgsFrom(i, args) ==
    CASE KindAt(i).tag = "CloseParen" -> Scanned("Ok", args, i)
      [] KindAt(i).tag = "Literal" ->
             MacroArgsFrom(AfterComma(i + 1), Append(args, MacroArg("Literal", "", KindAt(i).num)))
      [] KindAt(i).tag = "Ident" ->
             MacroArgsFrom(AfterComma(i + 1), Append(args, MacroArg("Ident", KindAt(i).str, 0)))
      [] KindAt(i).tag = "LeftAngle" ->
             IF KindAt(i + 1).tag = "Ident" /\ KindAt(i + 2).tag = "RightAngle"
             THEN MacroArgsFrom(AfterComma(i + 3),
                                Append(args, MacroArg("ArgCall", KindAt(i + 1).str, 0)))
             ELSE Scanned("Unfinished", args, i)
      [] OTHER -> Scanned("InvalidMacroArgs", args, i)

MacroArgsCalled == pc = "macro_call_args_returned" /\ KindAt(1).tag = "OpenParen"

\* C18: parse_macro_call_args, started at `(`, returns one MacroArg for each
\* argument in source order (Literal, Ident, `<` Ident `>` as ArgCall) and ends
\* having consumed exactly the matching `)`; any other token where an argument
\* starts (a `,` with no argument before it and Eof included) fails with
\* InvalidMacroArgs and leaves the span accumulator empty.
C18_MacroCallArgs ==
    /\ pc # "macro_call_args_panicked"
    /\ (MacroArgsCalled /\ MacroArgsFrom(2, <<>>).st = "Ok") =>
           /\ ret.st = "Ok"
           /\ ret.margs = MacroArgsFrom(2, <<>>).args
           /\ cursor = MacroArgsFrom(2, <<>>).at
           /\ current_token = input[MacroArgsFrom(2, <<>>).at + 1]
    /\ (MacroArgsCalled /\ MacroArgsFrom(2, <<>>).st = "InvalidMacroArgs") =>
           /\ ret.st = "Err"
           /\ ret.err.kind = "InvalidMacroArgs"
           /\ ret.err.tok = KindAt(MacroArgsFrom(2, <<>>).at)
           /\ spans = <<>>
           /\ cursor = MacroArgsFrom(2, <<>>).at - 1
    /\ (MacroArgsCalled /\ ret.st = "Err" /\ ret.err.kind = "InvalidMacroArgs") =>
           MacroArgsFrom(2, <<>>).st = "InvalidMacroArgs"

\* Two arguments, a literal and an argument call: the `)` is the sixth token.
C18_ThreeArguments ==
    /\ MacroArgsCalled
    /\ ret.st = "Ok"
    /\ Len(ret.margs) = 2
    /\ ret.margs[1].ty = "Literal"
    /\ ret.margs[2].ty = "ArgCall"
    /\ cursor = 6

\* A comma with no argument before it, after one argument and its comma.
C18_SecondComma ==
    /\ MacroArgsCalled
    /\ ret.st = "Err"
    /\ ret.err.kind = "InvalidMacroArgs"
    /\ ret.err.tok = K("Comma")
    /\ cursor = 3
    /\ spans = <<>>
    /\ ret.err.spans = <<1, 2, 3>>

(* C19: the cursor during parse() *)

\* The step left cursor on a token of the vector, with current_token that token.
StepInRange(step) ==
    /\ 0 <= step.cursor
    /\ step.cursor < Len(tokens)
    /\ step.current_token = tokens[step.cursor + 1]

\* C19: on a token vector that ends in Eof, in every state during parse()
\* after the initial reset 0 <= cursor < len(tokens) and current_token is
\* tokens[cursor]; cursor never decreases; no Eof token is ever consumed, so
\* consume() never reads past the end; when parse() returns a Contract,
\* cursor is the index of the first Eof token.
C19_CursorInvariant ==
    ParseCalled =>
        /\ pc # "panicked"
        /\ steps # <<>>
        /\ steps[1] = Step(0, tokens[1], "")
        /\ \A k \in 1..Len(steps) : StepInRange(steps[k]) /\ steps[k].consumed # "Eof"
        /\ \A k \in 2..Len(steps) : steps[k].cursor >= steps[k - 1].cursor
        /\ cursor = steps[Len(steps)].cursor
        /\ current_token = steps[Len(steps)].current_token
        /\ ReturnedOk =>
               /\ current_token.kind = Eof
               /\ \A i \in 1..cursor : tokens[i].kind # Eof

\* A Contract returned at an Eof that is not the last token of the vector.
C19_StopsAtFirstEof ==
    /\ ReturnedOk
    /\ Len(ret.contract.constants) = 1
    /\ cursor + 1 < Len(tokens)
    /\ Len(steps) = cursor + 1

(* C20: parse() called twice *)

\* C20: a second call of parse() on the same parser, whether the first call
\* returned a Contract or an error, returns a result equal to the first: the
\* same Contract, or the same error kind with the same error spans.
C20_SecondCallSameResult ==
    [][ParseAgain =>
           /\ pc' = "returned_again"
           /\ ret'.st = ret.st
           /\ ret'.contract = ret.contract
           /\ ret'.err.kind = ret.err.kind
           /\ ret'.err.tok = ret.err.tok
           /\ ret'.err.spans = ret.err.spans]_vars

\* The same but for the error spans: they are equal when the first call
\* returned with the span accumulator empty or got past the include phase.
C20_SecondCallSameButSpans ==
    [][ParseAgain =>
           /\ pc' = "returned_again"
           /\ ret'.st = ret.st
           /\ ret'.contract = ret.contract
           /\ ret'.err.kind = ret.err.kind
           /\ ret'.err.tok = ret.err.tok
           /\ (spans = <<>> \/ (FirstDefine > 0 /\ cursor >= FirstDefine))
                  => ret'.err.spans = ret.err.spans
           /\ tokens' = tokens
           /\ cursor' = cursor
           /\ current_token' = current_token]_vars
====
